---- MODULE Spec2Model ----
(***************************************************************************)
(* The query resolution engine of the indexing service                     *)
(* (pkg/service/service.go): IndexingService.Query decomposes a query into *)
(* one job per multihash and hands them to a JobWalker, which runs         *)
(* IndexingService.jobHandler on every job until quiescence.               *)
(*                                                                         *)
(* Byte strings (multihashes, context ids, job types, job keys) are        *)
(* sequences of byte values, so that job.key, a concatenation of byte      *)
(* strings, is computed the way the Go code computes it.                   *)
(***************************************************************************)
EXTENDS Naturals, Integers, Sequences, FiniteSets, Bags, TLC

(***************************************************************************)
(* Bounds of the model.                                                    *)
(***************************************************************************)
\* largest worker count given to WithConcurrency
MaxWorkers == 2
\* how many times Query is called on the same backend
MaxRounds == 2
\* longest list of multihashes in a query
MaxHashes == 2
\* longest list of provider records given to MarshalCBOR
MaxRecords == 2
\* longest chain of entry chunks in the datastore
MaxChunks == 2
\* most entries in an entry chunk
MaxEntries == 2

(***************************************************************************)
(* Byte strings.                                                           *)
(***************************************************************************)
\* "standard"
standardJobType == <<115, 116, 97, 110, 100, 97, 114, 100>>
\* "location"
locationJobType == <<108, 111, 99, 97, 116, 105, 111, 110>>
\* "equals_or_location"
equalsOrLocationJobType ==
  <<101, 113, 117, 97, 108, 115, 95, 111, 114, 95, 108, 111, 99, 97, 116, 105, 111, 110>>

\* protocol codes of the metadata package
EqualsClaimID == "EqualsClaimID"
IndexClaimID == "IndexClaimID"
LocationCommitmentID == "LocationCommitmentID"
\* a protocol code the metadata context does not know
UnknownID == "UnknownID"

\* a nil pointer is the empty tuple, a pointer to x the tuple <<x>>
Nil == <<>>
Ptr(x) == <<x>>
Deref(p) == p[1]

(***************************************************************************)
(* job and job.key                                                         *)
(***************************************************************************)
job(mh, indexForMh, indexProviderRecord, jobType) ==
  [mh |-> mh, indexForMh |-> indexForMh,
   indexProviderRecord |-> indexProviderRecord, jobType |-> jobType]

\* job.key: k := jobKey(j.mh) + jobKey(j.jobType); if j.indexForMh != nil
\* { k += jobKey(*j.indexForMh) }
key(j) ==
  LET k == j.mh \o j.jobType
  IN  IF j.indexForMh # Nil THEN k \o Deref(j.indexForMh) ELSE k

\* the tuple (mh, kind, indexForMh) a job key stands for
JobTuple(j) == <<j.mh, j.jobType, j.indexForMh>>

\* a variant of targetClaims in which location jobs also ask for equals claims
targetClaimsWide(t) ==
  IF t = standardJobType THEN <<EqualsClaimID, IndexClaimID, LocationCommitmentID>>
  ELSE IF t = locationJobType THEN <<EqualsClaimID, LocationCommitmentID>>
  ELSE <<IndexClaimID, LocationCommitmentID>>

\* var targetClaims = map[jobType][]multicodec.Code{...}
targetClaims(t) ==
  IF t = standardJobType THEN <<EqualsClaimID, IndexClaimID, LocationCommitmentID>>
  ELSE IF t = locationJobType THEN <<LocationCommitmentID>>
  ELSE <<IndexClaimID, LocationCommitmentID>>

Range(s) == {s[i] : i \in 1..Len(s)}

(***************************************************************************)
(* Provider records and their metadata.                                    *)
(***************************************************************************)
\* a metadata block of an equals claim, an index claim, a location commitment,
\* and a block of a protocol the metadata context does not know
EqualsClaimMetadata(claim, equals) ==
  [code |-> EqualsClaimID, claim |-> claim, equals |-> equals]
IndexClaimMetadata(claim, index) ==
  [code |-> IndexClaimID, claim |-> claim, index |-> index]
LocationCommitmentMetadata(claim) ==
  [code |-> LocationCommitmentID, claim |-> claim]
UnknownMetadata == [code |-> UnknownID]

\* model.ProviderResult; Provider is a pointer, Nil for a nil *peer.AddrInfo;
\* valid tells whether md.UnmarshalBinary succeeds
ProviderResult(provider, contextID, valid, protocols) ==
  [Provider |-> provider, ContextID |-> contextID,
   Metadata |-> [valid |-> valid, protocols |-> protocols]]

\* the delegation stored at the origin under a claim cid
Delegation(claimCid) == [root |-> claimCid]

(***************************************************************************)
(* Backends and queries the model runs on.  Multihashes are byte strings.  *)
(***************************************************************************)
H1 == <<1>>
H2 == <<2>>
HI == <<4>>
S1 == <<5>>
S2 == <<6>>
HX == <<7>>
HY == <<8>>
\* context ids are opaque byte strings
CtxA == <<21>>
CtxB == <<22>>
CtxC == <<23>>
CtxI == <<24>>
\* a context id made of the bytes of S1 followed by "equals_or_"
CtxS1 == S1 \o <<101, 113, 117, 97, 108, 115, 95, 111, 114, 95>>

NoRecords == <<>>

\* the equals claim C1 (H1 = H2) is published under both multihashes with the
\* content multihash H1 as context id
EqRec == ProviderResult(Ptr("P1"), H1, TRUE, <<EqualsClaimMetadata("C1", H2)>>)

\* scenarios 1 and 5: one location commitment
ScDirect ==
  [roots |-> {H1},
   providers |-> (H1 :> <<ProviderResult(Ptr("P1"), CtxA, TRUE,
                            <<UnknownMetadata, LocationCommitmentMetadata("C1")>>)>>),
   findErr |-> {}, claimErr |-> {}, indexes |-> <<>>, indexErr |-> {}]

\* scenarios 2/3: equals claim seen from the content side and the equals side
ScEquals ==
  [roots |-> {H1, H2},
   providers |->
     (H1 :> <<EqRec, ProviderResult(Ptr("P1"), CtxA, TRUE, <<LocationCommitmentMetadata("C3")>>)>>)
     @@ (H2 :> <<EqRec, ProviderResult(Ptr("P2"), CtxB, TRUE, <<LocationCommitmentMetadata("C2")>>)>>),
   findErr |-> {}, claimErr |-> {}, indexes |-> <<>>, indexErr |-> {}]

\* scenario 4: index claim, index blob, shards; the shard S1 carries an index
\* claim for the same index and lists itself, which closes a cycle
IndexOfI == (S1 :> {H1, HX, S1}) @@ (S2 :> {HY})
ScIndex ==
  [roots |-> {H1, S1},
   providers |->
     (H1 :> <<ProviderResult(Ptr("P1"), CtxA, TRUE, <<IndexClaimMetadata("C1", HI)>>)>>)
     @@ (HI :> <<ProviderResult(Ptr("P2"), CtxI, TRUE, <<LocationCommitmentMetadata("C2")>>)>>)
     @@ (S1 :> <<ProviderResult(Ptr("P3"), CtxB, TRUE,
                   <<LocationCommitmentMetadata("C3"), IndexClaimMetadata("C5", HI)>>)>>)
     @@ (S2 :> <<ProviderResult(Ptr("P3"), CtxC, TRUE, <<LocationCommitmentMetadata("C4")>>)>>),
   findErr |-> {}, claimErr |-> {},
   indexes |-> (CtxI :> IndexOfI), indexErr |-> {}]

\* records that carry blocks of several protocols, with a cycle of equals claims
ScMulti ==
  [roots |-> {H1, H2},
   providers |->
     (H1 :> <<ProviderResult(Ptr("P1"), H1, TRUE,
                <<LocationCommitmentMetadata("C3"), EqualsClaimMetadata("C1", H2)>>)>>)
     @@ (H2 :> <<ProviderResult(Ptr("P2"), H2, TRUE,
                   <<LocationCommitmentMetadata("C2"), EqualsClaimMetadata("C4", H1)>>)>>),
   findErr |-> {}, claimErr |-> {}, indexes |-> <<>>, indexErr |-> {}]

\* failures: the claim C2 cannot be fetched
ScClaimErr == [ScEquals EXCEPT !.claimErr = {"C2"}]
\* failures: Find fails for H2, and a record of H1 has undecodable metadata
ScFindErr ==
  [roots |-> {H1, H2},
   providers |->
     (H1 :> <<ProviderResult(Ptr("P1"), CtxA, TRUE, <<LocationCommitmentMetadata("C3")>>),
              ProviderResult(Ptr("P1"), CtxB, FALSE, <<LocationCommitmentMetadata("C2")>>)>>),
   findErr |-> {H2}, claimErr |-> {}, indexes |-> <<>>, indexErr |-> {}]
\* failures: the index blob cannot be fetched
ScIndexErr == [ScIndex EXCEPT !.indexErr = {CtxI}]

\* an equals claim found on the equals side under the context id CtxS1, next
\* to an index whose shards S1 and S2 both contain the queried multihash
ScCtx ==
  [roots |-> {H1, H2},
   providers |->
     (H1 :> <<ProviderResult(Ptr("P1"), CtxA, TRUE, <<IndexClaimMetadata("C1", HI)>>)>>)
     @@ (HI :> <<ProviderResult(Ptr("P2"), CtxI, TRUE, <<LocationCommitmentMetadata("C2")>>)>>)
     @@ (S1 :> <<ProviderResult(Ptr("P3"), CtxB, TRUE, <<LocationCommitmentMetadata("C3")>>)>>)
     @@ (H2 :> <<ProviderResult(Ptr("P1"), CtxS1, TRUE, <<EqualsClaimMetadata("C4", H2)>>)>>)
     @@ (CtxS1 :> <<ProviderResult(Ptr("P4"), CtxC, TRUE, <<LocationCommitmentMetadata("C5")>>)>>),
   findErr |-> {}, claimErr |-> {},
   indexes |-> (CtxI :> ((S1 :> {H1}) @@ (S2 :> {H1, HY}))), indexErr |-> {}]

\* blocks of a protocol the metadata context does not know, before, between
\* and after location commitments, in two records of one Find response
ScUnknown ==
  [roots |-> {H1},
   providers |->
     (H1 :> <<ProviderResult(Ptr("P1"), CtxA, TRUE,
                <<UnknownMetadata, LocationCommitmentMetadata("C1"), UnknownMetadata>>),
              ProviderResult(Ptr("P2"), CtxB, TRUE,
                <<UnknownMetadata, LocationCommitmentMetadata("C2")>>)>>),
   findErr |-> {}, claimErr |-> {}, indexes |-> <<>>, indexErr |-> {}]

\* failures: the location claim C3 of the shard S1 cannot be fetched, so a
\* walk may be cancelled between the spawns for the shards S1 and S2
ScShardErr == [ScCtx EXCEPT !.claimErr = {"C3"}]

\* a provider record whose Provider is nil, as the provider cache decodes it
\* from a record stored without provider
ScNil ==
  [roots |-> {H1},
   providers |-> (H1 :> <<ProviderResult(Nil, CtxA, TRUE,
                            <<LocationCommitmentMetadata("C1")>>)>>),
   findErr |-> {}, claimErr |-> {}, indexes |-> <<>>, indexErr |-> {}]

\* failures: a record that does not decode follows an equals claim
ScSpawnErr ==
  [roots |-> {H1},
   providers |->
     (H1 :> <<ProviderResult(Ptr("P1"), CtxA, TRUE, <<EqualsClaimMetadata("C1", H2)>>),
              ProviderResult(Ptr("P1"), CtxB, FALSE, <<LocationCommitmentMetadata("C3")>>)>>)
     @@ (H2 :> <<ProviderResult(Ptr("P2"), CtxC, TRUE, <<LocationCommitmentMetadata("C2")>>)>>),
   findErr |-> {}, claimErr |-> {}, indexes |-> <<>>, indexErr |-> {}]

Backends ==
  {ScDirect, ScEquals, ScIndex, ScMulti, ScClaimErr, ScFindErr, ScIndexErr, ScCtx,
   ScUnknown, ScShardErr, ScNil, ScSpawnErr}

\* the queries put to a backend: up to MaxHashes of the multihashes it knows
RECURSIVE SeqsUpTo(_, _)
SeqsUpTo(S, n) ==
  IF n = 0 THEN {<<>>}
  ELSE LET shorter == SeqsUpTo(S, n - 1)
       IN  shorter \cup {Append(t, x) : t \in shorter, x \in S}

\* the queries: lists of multihashes without a match on subject spaces
Queries(backend) ==
  {[Hashes |-> hs, Match |-> [Subject |-> <<>>]] :
     hs \in SeqsUpTo(backend.roots, MaxHashes)}

(***************************************************************************)
(* State.                                                                  *)
(***************************************************************************)
VARIABLES
  sc,          \* the backend (fixed for a behaviour)
  q,           \* the query (fixed for a behaviour)
  round,       \* number of Query calls started so far
  phase,       \* "idle": no Query call in progress; "walk": the walker runs;
               \* "panic": a handler of the call has panicked
  conc,        \* 0: singlewalk.SingleWalker; n > 0: parallelwalk with n workers
  queue,       \* the walker's pending jobs (a bag)
  running,     \* the handler invocations the workers are in (their frames),
               \* those that returned an error the walker has yet to take
               \* included
  qs,          \* queryState: [visits, qr: [Claims, Indexes]]
  walkErr,     \* the first handler error the walker took, NoErr if none
  claimCache,  \* claim cids held by the claim cache (kept between queries)
  ret,         \* what the last finished Query call returned
  first,       \* what the first Query call returned
  hist         \* what the current Query call did so far (history)

\* the redis store (pkg/redis) over the MockRedis client of its test
VARIABLES
  mockRedis,   \* MockRedis: [data, errGet, errSet, errSetExpiration]
  lastCall,    \* the latest call of the store and what it returned
  want         \* per key that was Set: value and expires of the latest
               \* successful Set and Set / SetExpirable (history)

queryVars ==
  <<sc, q, round, phase, conc, queue, running, qs, walkErr, claimCache, ret, first, hist>>
redisVars == <<mockRedis, lastCall, want>>

\* the provider cache encoding (pkg/providerresults, pkg/redis)
VARIABLES
  input,       \* the []model.ProviderResult given to the encoder
  encoded,     \* what the encoder returned: [called, data, err]
  decoded      \* what the decoder returned: [called, records, err]

codecVars == <<input, encoded, decoded>>

\* the advertisement entries iterator (pkg/service/providerindex/publisher)
VARIABLES
  ds,          \* the datastore: the entry chunk stored under each link
  root,        \* the root link given to Entries, Nil for a nil link
  iter         \* the iterator: [pc, cur, ent, i, yielded, reads, refused]

entriesVars == <<ds, root, iter>>
vars == <<queryVars, redisVars, codecVars, entriesVars>>

NoErr == "nil"
ErrFind == "provider index: find failed"
ErrDecode == "metadata: unmarshal failed"
ErrClaim == "claim lookup failed"
ErrIndex == "blob index lookup failed"
ErrCancelled == "context canceled"

NoReturn == [called |-> FALSE]

(***************************************************************************)
(* The redis store and the MockRedis client.                               *)
(***************************************************************************)
\* redis.DefaultExpire, a positive duration (here in seconds)
DefaultExpire == 3600
\* goredis.Nil
RedisNil == "redis: nil"
\* types.ErrKeyNotFound
ErrKeyNotFound == "k not found"
\* errors.New("something went wrong")
SomethingWentWrong == "something went wrong"

RedisKeys == {"key1", "key2"}
RedisValues == {"value1", "value2"}

\* NewMockRedis(opts...): no data, the errors the options set
NewMockRedis(errGet, errSet, errSetExpiration) ==
  [data |-> <<>>, errGet |-> errGet, errSet |-> errSet,
   errSetExpiration |-> errSetExpiration]

\* &redisValue{data, expires}
redisValue(data, expires) == [data |-> data, expires |-> expires]

\* a command of the client: the mock after it, cmd.Err() and cmd.Val()
Cmd(m, err, val) == [m |-> m, err |-> err, val |-> val]

\* MockRedis.Expire
Expire(m, k, expiration) ==
  IF m.errSetExpiration # NoErr THEN Cmd(m, m.errSetExpiration, FALSE)
  ELSE IF k \in DOMAIN m.data /\ m.data[k].expires # expiration
    THEN Cmd([m EXCEPT !.data[k].expires = expiration], NoErr, TRUE)
  ELSE Cmd(m, NoErr, FALSE)

\* MockRedis.Get
Get(m, k) ==
  IF m.errGet # NoErr THEN Cmd(m, m.errGet, "")
  ELSE IF k \notin DOMAIN m.data THEN Cmd(m, RedisNil, "")
  ELSE Cmd(m, NoErr, m.data[k].data)

\* a variant of Persist that leaves the expiration as it is
PersistKeepsExpiration(m, k) ==
  IF m.errSetExpiration # NoErr THEN Cmd(m, m.errSetExpiration, FALSE)
  ELSE Cmd(m, NoErr, k \in DOMAIN m.data /\ m.data[k].expires # 0)

\* MockRedis.Persist
Persist(m, k) ==
  IF m.errSetExpiration # NoErr THEN Cmd(m, m.errSetExpiration, FALSE)
  ELSE IF k \in DOMAIN m.data /\ m.data[k].expires # 0
    THEN Cmd([m EXCEPT !.data[k].expires = 0], NoErr, TRUE)
  ELSE Cmd(m, NoErr, FALSE)

\* a variant of Set that stores the value before it looks at errSet
SetStoresFirst(m, k, value, expiration) ==
  Cmd([m EXCEPT !.data = (k :> redisValue(value, expiration)) @@ @],
      m.errSet, "")

\* MockRedis.Set
Set(m, k, value, expiration) ==
  IF m.errSet # NoErr THEN Cmd(m, m.errSet, "")
  ELSE Cmd([m EXCEPT !.data = (k :> redisValue(value, expiration)) @@ @],
           NoErr, "")

\* the conversions the test gives to redis.NewStore
fromRedis(s) == s
toRedis(s) == s
keyString(s) == s

\* fmt.Errorf("error accessing redis: %w", err)
ErrAccessingRedis(err) == "error accessing redis: " \o err

\* what a call of the store leaves: the client after it, the value and the
\* error returned
StoreResult(m, value, err) == [m |-> m, value |-> value, err |-> err]

\* Store.Get
StoreGet(m, k) ==
  LET cmd == Get(m, keyString(k))
  IN  IF cmd.err = RedisNil THEN StoreResult(cmd.m, "", ErrKeyNotFound)
      ELSE IF cmd.err # NoErr THEN StoreResult(cmd.m, "", ErrAccessingRedis(cmd.err))
      ELSE StoreResult(cmd.m, fromRedis(cmd.val), NoErr)

\* Store.Set
StoreSet(m, k, value, expires) ==
  LET duration == IF expires THEN DefaultExpire ELSE 0
      cmd == Set(m, keyString(k), toRedis(value), duration)
  IN  IF cmd.err # NoErr THEN StoreResult(cmd.m, "", ErrAccessingRedis(cmd.err))
      ELSE StoreResult(cmd.m, "", NoErr)

\* Store.SetExpirable
StoreSetExpirable(m, k, expires) ==
  LET cmd == IF expires THEN Expire(m, keyString(k), DefaultExpire)
             ELSE Persist(m, keyString(k))
  IN  IF cmd.err # NoErr THEN StoreResult(cmd.m, "", ErrAccessingRedis(cmd.err))
      ELSE StoreResult(cmd.m, "", NoErr)

NoCall == [op |-> "none"]

(***************************************************************************)
(* The provider cache encoding: providerresults.MarshalCBOR and            *)
(* UnmarshalCBOR.  The encoded form is a sequence of CBOR data items; a    *)
(* record is the list of its context id, its metadata (raw bytes here) and *)
(* its provider, null for a nil provider; an address info is the list of   *)
(* its peer id and its list of addresses, both as byte strings.            *)
(***************************************************************************)
NotCalled == [called |-> FALSE]

ErrInvalidPeerID == "multihash too short or of inconsistent length"
ErrInvalidMultiaddr == "invalid multiaddr bytes"
ErrMalformed == "malformed cbor"

\* CBOR data items
CborBytes(b) == [t |-> "bytes", v |-> b]
CborList(n) == [t |-> "list", v |-> n]
CborNull == [t |-> "null", v |-> 0]

\* peer.AddrInfo
AddrInfo(id, addrs) == [ID |-> id, Addrs |-> addrs]

\* peer.IDFromBytes: the bytes must be a multihash, i.e. a code, a length
\* and a digest of that length
IDFromBytes(data) ==
  IF Len(data) >= 2 /\ data[2] = Len(data) - 2
    THEN [val |-> data, err |-> NoErr]
    ELSE [val |-> <<>>, err |-> ErrInvalidPeerID]

\* bytesToPeerID: id, err := peer.IDFromBytes(data); return &id, err
bytesToPeerID(data) == IDFromBytes(data)

\* peerIDtoBytes: return []byte(*peerID.(*peer.ID)), nil
peerIDtoBytes(peerID) == [val |-> peerID, err |-> NoErr]

\* bytesToMultiaddr: ma, err := multiaddr.NewMultiaddrBytes(data)
bytesToMultiaddr(data) ==
  IF Len(data) >= 1 THEN [val |-> data, err |-> NoErr]
  ELSE [val |-> <<>>, err |-> ErrInvalidMultiaddr]

\* multiaddrToBytes: return (*ma.(*multiaddr.Multiaddr)).Bytes(), nil
multiaddrToBytes(ma) == [val |-> ma, err |-> NoErr]

\* the concatenation of the sequences of a sequence
RECURSIVE Concat(_)
Concat(ss) == IF ss = <<>> THEN <<>> ELSE Head(ss) \o Concat(Tail(ss))

\* the encoding of an address info and of a provider record
EncodeAddrInfo(a) ==
  <<CborList(2), CborBytes(peerIDtoBytes(a.ID).val), CborList(Len(a.Addrs))>>
    \o [i \in 1..Len(a.Addrs) |-> CborBytes(multiaddrToBytes(a.Addrs[i]).val)]
EncodeRecord(r) ==
  <<CborList(3), CborBytes(r.ContextID), CborBytes(r.Metadata)>>
    \o (IF r.Provider = Nil THEN <<CborNull>> ELSE EncodeAddrInfo(Deref(r.Provider)))

\* MarshalCBOR: ipld.Marshal(dagcbor.Encode, &records, providerResultsType,
\*                           peerIDConverter, multiaddrConverter)
MarshalCBOR(rs) ==
  [data |-> <<CborList(Len(rs))>> \o Concat([i \in 1..Len(rs) |-> EncodeRecord(rs[i])]),
   err |-> NoErr]

\* the result of decoding from position pos: the value, the position after
\* it, and the error
Decoded(val, pos, err) == [val |-> val, pos |-> pos, err |-> err]

\* the item at position pos is of type t
ItemIs(data, pos, t) == pos <= Len(data) /\ data[pos].t = t

\* n addresses from position pos on, each through bytesToMultiaddr
RECURSIVE DecodeAddrs(_, _, _)
DecodeAddrs(data, pos, n) ==
  IF n = 0 THEN Decoded(<<>>, pos, NoErr)
  ELSE IF ~ItemIs(data, pos, "bytes") THEN Decoded(<<>>, pos, ErrMalformed)
  ELSE LET ma == bytesToMultiaddr(data[pos].v)
           rest == DecodeAddrs(data, pos + 1, n - 1)
       IN  IF ma.err # NoErr THEN Decoded(<<>>, pos, ma.err)
           ELSE IF rest.err # NoErr THEN rest
           ELSE Decoded(<<ma.val>> \o rest.val, rest.pos, NoErr)

\* an address info from position pos on, its peer id through bytesToPeerID
DecodeAddrInfo(data, pos) ==
  IF ~(ItemIs(data, pos, "list") /\ data[pos].v = 2 /\ ItemIs(data, pos + 1, "bytes")
       /\ ItemIs(data, pos + 2, "list"))
    THEN Decoded(Nil, pos, ErrMalformed)
  ELSE LET id == bytesToPeerID(data[pos + 1].v)
           addrs == DecodeAddrs(data, pos + 3, data[pos + 2].v)
       IN  IF id.err # NoErr THEN Decoded(Nil, pos, id.err)
           ELSE IF addrs.err # NoErr THEN Decoded(Nil, pos, addrs.err)
           ELSE Decoded(AddrInfo(id.val, addrs.val), addrs.pos, NoErr)

\* a provider record from position pos on
DecodeRecord(data, pos) ==
  IF ~(ItemIs(data, pos, "list") /\ data[pos].v = 3 /\ ItemIs(data, pos + 1, "bytes")
       /\ ItemIs(data, pos + 2, "bytes"))
    THEN Decoded(Nil, pos, ErrMalformed)
  ELSE LET rec(provider) == [ContextID |-> data[pos + 1].v, Metadata |-> data[pos + 2].v,
                             Provider |-> provider]
       IN  IF ItemIs(data, pos + 3, "null") THEN Decoded(rec(Nil), pos + 4, NoErr)
           ELSE LET a == DecodeAddrInfo(data, pos + 3)
                IN  IF a.err # NoErr THEN Decoded(Nil, pos, a.err)
                    ELSE Decoded(rec(Ptr(a.val)), a.pos, NoErr)

RECURSIVE DecodeRecords(_, _, _)
DecodeRecords(data, pos, n) ==
  IF n = 0 THEN Decoded(<<>>, pos, NoErr)
  ELSE LET r == DecodeRecord(data, pos)
       IN  IF r.err # NoErr THEN Decoded(<<>>, pos, r.err)
           ELSE LET rest == DecodeRecords(data, r.pos, n - 1)
                IN  IF rest.err # NoErr THEN rest
                    ELSE Decoded(<<r.val>> \o rest.val, rest.pos, NoErr)

\* UnmarshalCBOR: ipld.Unmarshal(data, dagcbor.Decode, &records, ...);
\* if err != nil { return nil, err }; return records, nil
UnmarshalCBOR(data) ==
  IF ~ItemIs(data, 1, "list") THEN [records |-> <<>>, err |-> ErrMalformed]
  ELSE LET rs == DecodeRecords(data, 2, data[1].v)
       IN  IF rs.err # NoErr THEN [records |-> <<>>, err |-> rs.err]
           ELSE IF rs.pos # Len(data) + 1 THEN [records |-> <<>>, err |-> ErrMalformed]
           ELSE [records |-> rs.val, err |-> NoErr]

\* equalProvider; peer.AddrInfo.String prints the peer id and the addresses
equalProvider(a, b) ==
  LET String(info) == <<"{", info.ID, ": ", info.Addrs, "}">>
  IN  IF a = Nil THEN b = Nil
      ELSE b # Nil /\ String(Deref(a)) = String(Deref(b))

\* Equals: bytes.Equal on ContextID and on Metadata, and equalProvider
Equals(a, b) ==
  /\ a.ContextID = b.ContextID
  /\ a.Metadata = b.Metadata
  /\ equalProvider(a.Provider, b.Provider)

\* providerResultsToRedis: string(data) holds the bytes of data
providerResultsToRedis(rs) ==
  LET m == MarshalCBOR(rs)
  IN  [data |-> [i \in 1..Len(m.data) |-> m.data[i]], err |-> m.err]

\* providerResultsFromRedis: []byte(data) holds the bytes of the string
providerResultsFromRedis(data) == UnmarshalCBOR([i \in 1..Len(data) |-> data[i]])

\* provider records as the cache holds them, with raw metadata; peer ids are
\* multihashes with code 0 or the id of a zero peer.AddrInfo, multiaddrs are
\* their bytes
CodecRecords ==
  LET PeerA == <<0, 1, 9>>
      PeerB == <<0, 2, 9, 9>>
      PeerZero == <<>>
      Addr1 == <<4, 127, 0, 0, 1>>
      Addr2 == <<4, 10, 0, 0, 1>>
  IN
  {[ContextID |-> CtxA, Metadata |-> <<128, 1>>, Provider |-> Ptr(AddrInfo(PeerA, <<Addr1>>))],
   [ContextID |-> CtxA, Metadata |-> <<128, 1>>, Provider |-> Nil],
   [ContextID |-> <<>>, Metadata |-> <<>>, Provider |-> Ptr(AddrInfo(PeerB, <<>>))],
   [ContextID |-> CtxB, Metadata |-> <<128, 2>>, Provider |-> Ptr(AddrInfo(PeerA, <<Addr1, Addr2>>))],
   [ContextID |-> CtxB, Metadata |-> <<128, 2>>, Provider |-> Ptr(AddrInfo(PeerZero, <<>>))]}

(***************************************************************************)
(* The advertisement entries chain and its datastore.                      *)
(***************************************************************************)
\* the links under which the datastore holds entry chunks; the link
\* MaxChunks + 1 is one it holds nothing under
Links == 1..MaxChunks

\* the error of ds.Get for a key that is not in the datastore
ErrNotFound == "datastore: key not found"
\* the error of schema.BytesToEntryChunk
ErrEntryChunk == "cannot decode entry chunk"

\* schema.EntryChunk as stored; valid tells whether the stored bytes decode
EntryChunk(entries, next, valid) == [Entries |-> entries, Next |-> next, valid |-> valid]

\* the chunks that may be stored under a link: up to MaxEntries multihashes,
\* each distinct from every other of the datastore, and a Next that is nil or
\* a later link (links are content addresses: a chain has no cycle)
ChunksAt(link) ==
  {EntryChunk([i \in 1..n |-> <<link, i>>], next, valid) :
     n \in 0..MaxEntries,
     next \in {Nil} \cup {Ptr(k) : k \in (link + 1)..(MaxChunks + 1)},
     valid \in BOOLEAN}

Datastores ==
  {d \in [Links -> UNION {ChunksAt(link) : link \in Links}] :
     \A link \in Links : d[link] \in ChunksAt(link)}

EmptyDatastore == [link \in Links |-> EntryChunk(<<>>, Nil, TRUE)]

\* v, err := ds.Get(ctx, linksCachePath.ChildString(cur.String()))
dsGet(store, link) ==
  IF link \in DOMAIN store THEN [val |-> store[link], err |-> NoErr]
  ELSE [val |-> Nil, err |-> ErrNotFound]

\* ent, err := schema.BytesToEntryChunk(asCID(cur), v)
BytesToEntryChunk(v) ==
  IF v.valid THEN [val |-> v, err |-> NoErr] ELSE [val |-> Nil, err |-> ErrEntryChunk]

\* the iterator before Entries is called and ranged over
NotIterating ==
  [pc |-> "idle", cur |-> Nil, ent |-> Nil, i |-> 0, yielded |-> <<>>, reads |-> <<>>,
   refused |-> FALSE]

\* yield(nil, err); return
yieldErr(state, err) ==
  [state EXCEPT !.pc = "done", !.yielded = Append(@, [mh |-> Nil, err |-> err])]

\* a variant of yielded that goes on after the consumer has answered false
yieldedGoesOn(state, more) == [state EXCEPT !.i = @ + 1, !.refused = ~more]

\* if !yield(d, nil) { return }
yielded(state, more) ==
  IF more THEN [state EXCEPT !.i = @ + 1]
  ELSE [state EXCEPT !.pc = "done", !.refused = TRUE]

\* queryState at the entry of Query
InitialState ==
  [visits |-> {}, qr |-> [Claims |-> <<>>, Indexes |-> <<>>]]

EmptyHist ==
  [created |-> {}, bodies |-> EmptyBag, deduped |-> {}, finds |-> EmptyBag,
   acted |-> {}, spawned |-> {}, origin |-> EmptyBag, hits |-> {},
   fetched |-> {}, fetchedIdx |-> {}, indexCalls |-> {}, inserted |-> {},
   insertedIdx |-> {}, claimSwaps |-> EmptyBag, indexSwaps |-> EmptyBag,
   claimRefused |-> {}, indexRefused |-> {}, errs |-> {}, failures |-> {}]

Init ==
  /\ sc \in Backends
  /\ q \in Queries(sc)
  /\ round = 0
  /\ phase = "idle"
  /\ conc = 0
  /\ queue = EmptyBag
  /\ running = {}
  /\ qs = InitialState
  /\ walkErr = NoErr
  /\ claimCache = {}
  /\ ret = NoReturn
  /\ first = NoReturn
  /\ hist = EmptyHist
  /\ mockRedis = NewMockRedis(NoErr, NoErr, NoErr)
  /\ lastCall = NoCall
  /\ want = <<>>
  /\ input = <<>>
  /\ encoded = NotCalled
  /\ decoded = NotCalled
  /\ ds = EmptyDatastore
  /\ root = Nil
  /\ iter = NotIterating

(***************************************************************************)
(* JobWalker.WrappedState                                                  *)
(***************************************************************************)
\* CmpSwap(willModify, modify): if the predicate holds of the state, the
\* state is replaced by its update; the Boolean result is the value of the
\* predicate.  willModify is the predicate applied to the state, modified the
\* update applied to the state
CmpSwap(state, willModify, modified) ==
  IF willModify THEN modified ELSE state

(***************************************************************************)
(* The pieces of IndexingService.jobHandler and IndexingService.Query      *)
(***************************************************************************)
\* a variant of the visits check that lets every job through
neverVisited(state, j) == TRUE

\* func(qs queryState) bool { _, ok := qs.visits[j.key()]; return !ok }
notVisited(state, j) == key(j) \notin state.visits

\* func(qs queryState) queryState { qs.visits[j.key()] = struct{}{}; return qs }
markVisited(state, j) == [state EXCEPT !.visits = @ \cup {key(j)}]

\* providerindex.QueryKey{Hash: j.mh, Spaces: state.Access().q.Match.Subject,
\*                        TargetClaims: targetClaims[j.jobType]}
QueryKey(j, query) ==
  [Hash |-> j.mh, Spaces |-> query.Match.Subject,
   TargetClaims |-> targetClaims(j.jobType)]

\* hasClaimCid, ok := protocol.(metadata.HasClaimCid)
HasClaimCid(protocol) ==
  protocol.code \in {EqualsClaimID, IndexClaimID, LocationCommitmentID}

\* a variant of the Claims predicate that lets every writer store its claim
claimAlwaysAbsent(state, claimCid) == TRUE

\* func(qs queryState) bool { _, ok := qs.qr.Claims[claimCid]; return !ok }
claimAbsent(state, claimCid) == claimCid \notin DOMAIN state.qr.Claims

\* func(qs queryState) queryState { qs.qr.Claims[claimCid] = claim; return qs }
setClaim(state, claimCid, claim) ==
  [state EXCEPT !.qr.Claims = (claimCid :> claim) @@ @]

\* return !qs.qr.Indexes.Has(result.ContextID)
indexAbsent(state, contextID) == contextID \notin DOMAIN state.qr.Indexes

\* qs.qr.Indexes.Set(result.ContextID, index)
setIndex(state, contextID, index) ==
  [state EXCEPT !.qr.Indexes = (contextID :> index) @@ @]

\* a variant of equalsJob that always follows the equals hash
equalsJobSameSide(j, result, typedProtocol) ==
  job(typedProtocol.equals, Nil, Nil, locationJobType)

\* case *metadata.EqualsClaimMetadata: the job spawned for an equals claim
equalsJob(j, result, typedProtocol) ==
  IF typedProtocol.equals # j.mh
    THEN job(typedProtocol.equals, Nil, Nil, locationJobType)
    ELSE job(result.ContextID, Nil, Nil, locationJobType)

\* a variant of indexJob that does not hand the record on
indexJobNoRecord(j, result, typedProtocol) ==
  job(typedProtocol.index, Ptr(j.mh), Nil, equalsOrLocationJobType)

\* case *metadata.IndexClaimMetadata: the job spawned for an index claim
indexJob(j, result, typedProtocol) ==
  job(typedProtocol.index, Ptr(j.mh), Ptr(result), equalsOrLocationJobType)

\* a variant of shardJobs that follows every shard of the index
shardJobsAll(j, index) ==
  {job(shard, Nil, Nil, equalsOrLocationJobType) : shard \in DOMAIN index}

\* the jobs spawned for the shards of a fetched index
shardJobs(j, index) ==
  {job(shard, Nil, Nil, equalsOrLocationJobType) :
     shard \in {s \in DOMAIN index : Deref(j.indexForMh) \in index[s]}}

\* initialJobs = append(initialJobs, job{mh, nil, nil, standardJobType})
initialJobs(Hashes) ==
  [i \in 1..Len(Hashes) |-> job(Hashes[i], Nil, Nil, standardJobType)]

\* a variant of the return of Query that drops the result of a failed walk
QueryReturnNoPartial(state, err) ==
  [called |-> TRUE, qr |-> IF err # NoErr THEN InitialState.qr ELSE state.qr, err |-> err]

\* return *qs.qr, err
QueryReturn(state, err) == [called |-> TRUE, qr |-> state.qr, err |-> err]

(***************************************************************************)
(* The collaborators of the handler: ProviderIndex, ClaimLookup and        *)
(* BlobIndexLookup, as the stable backend sc answers them.                 *)
(***************************************************************************)
\* ProviderIndex.Find: the records known for the hash that carry at least
\* one protocol of TargetClaims
ProviderIndexFind(backend, queryKey) ==
  LET records == IF queryKey.Hash \in DOMAIN backend.providers
                   THEN backend.providers[queryKey.Hash] ELSE NoRecords
      wanted(r) == \E i \in 1..Len(r.Metadata.protocols) :
                     r.Metadata.protocols[i].code \in Range(queryKey.TargetClaims)
  IN  SelectSeq(records, wanted)

\* ClaimLookup.LookupClaim, step 1: the cache is probed by claim cid
ClaimCached(cache, claimCid) == claimCid \in cache

\* ClaimLookup.LookupClaim, step 2: the claim is fetched from the origin
OriginHasClaim(backend, claimCid) == claimCid \notin backend.claimErr

\* BlobIndexLookup.Find
IndexFound(backend, contextID) ==
  contextID \in DOMAIN backend.indexes /\ contextID \notin backend.indexErr

(***************************************************************************)
(* The handler's loops over records and protocol blocks.                   *)
(***************************************************************************)
\* for _, result := range results { md.UnmarshalBinary(result.Metadata) ...
\*   for _, code := range md.Protocols() { ... if !ok { continue } ...
\* from position (ri, bi) on: the next block that carries a claim cid, a
\* decoding error, or the end of the results
\* a variant of NextPos that leaves a record at its first block without a
\* claim cid
RECURSIVE NextPosLeavesRecord(_, _, _)
NextPosLeavesRecord(results, ri, bi) ==
  IF ri > Len(results) THEN [t |-> "end", ri |-> ri, bi |-> bi]
  ELSE IF bi = 1 /\ ~results[ri].Metadata.valid
    THEN [t |-> "decodeErr", ri |-> ri, bi |-> bi]
  ELSE IF bi > Len(results[ri].Metadata.protocols) THEN NextPosLeavesRecord(results, ri + 1, 1)
  ELSE IF ~HasClaimCid(results[ri].Metadata.protocols[bi])
    THEN NextPosLeavesRecord(results, ri + 1, 1)
  ELSE [t |-> "block", ri |-> ri, bi |-> bi]

RECURSIVE NextPos(_, _, _)
NextPos(results, ri, bi) ==
  IF ri > Len(results) THEN [t |-> "end", ri |-> ri, bi |-> bi]
  ELSE IF bi = 1 /\ ~results[ri].Metadata.valid
    THEN [t |-> "decodeErr", ri |-> ri, bi |-> bi]
  ELSE IF bi > Len(results[ri].Metadata.protocols) THEN NextPos(results, ri + 1, 1)
  ELSE IF ~HasClaimCid(results[ri].Metadata.protocols[bi]) THEN NextPos(results, ri, bi + 1)
  ELSE [t |-> "block", ri |-> ri, bi |-> bi]

\* the frame of a handler invocation
Frame(j) ==
  [job |-> j, pc |-> "find", results |-> NoRecords, ri |-> 1, bi |-> 1,
   claim |-> Nil, index |-> Nil, todo |-> {}, err |-> NoErr]

\* the handler of job j has returned err; the walker has yet to take it
ReturnedErr(j, err) == [Frame(j) EXCEPT !.pc = "returned", !.err = err]

Result(f) == f.results[f.ri]
Protocol(f) == f.results[f.ri].Metadata.protocols[f.bi]

\* what a step of a handler leaves: the handler returns err, or goes on as
\* frame; fail is the error a collaborator handed to the handler in the step
Returns(err) == [ret |-> TRUE, err |-> err, frame |-> Nil, spawn |-> {}, fail |-> NoErr]
GoesOn(frame) == [ret |-> FALSE, err |-> NoErr, frame |-> frame, spawn |-> {}, fail |-> NoErr]
Failed(err, out) == [out EXCEPT !.fail = err]

\* the handler with the claim lookup of the block at hand completed
WithClaim(f, claim) == GoesOn([f EXCEPT !.pc = "insert", !.claim = Ptr(claim)])

\* the delegation value LookupClaim returns next to an error
NoDelegation == [root |-> "none"]

\* variants of the error checks that drop the error
findErrIgnored(f, err) == Returns(NoErr)
lookupErrIgnored(f, err) == WithClaim(f, NoDelegation)

\* results, err := is.providerIndex.Find(...); if err != nil { return err }
findErr(f, err) == Returns(err)

\* err = md.UnmarshalBinary(result.Metadata); if err != nil { return err }
unmarshalErr(f, err) == Returns(err)

\* claim, err := is.claimLookup.LookupClaim(...); if err != nil { return err }
lookupErr(f, err) == Returns(err)

\* index, err := is.blobIndexLookup.Find(...); if err != nil { return err }
indexErr(f, err) == Returns(err)

\* if err := spawn(job{...}); err != nil { return err }
spawnErr(f, err) == Returns(err)

\* the handler goes on with the loops at position (ri, bi)
Loop(f, ri, bi) ==
  LET p == NextPos(f.results, ri, bi)
  IN  IF p.t = "block"
        THEN GoesOn([f EXCEPT !.pc = "lookup", !.ri = p.ri, !.bi = p.bi,
                              !.claim = Nil, !.index = Nil, !.todo = {}])
      ELSE IF p.t = "decodeErr" THEN Failed(ErrDecode, unmarshalErr(f, ErrDecode))
      ELSE Returns(NoErr)

\* the walker's spawn: it fails once the walk is cancelled
\* spawn(j) for every job of the set, then the rest of the handler
Spawn(f, jobs, cancelled, rest) ==
  IF jobs = {} THEN rest
  ELSE IF cancelled THEN Failed(ErrCancelled, spawnErr(f, ErrCancelled))
  ELSE [rest EXCEPT !.spawn = jobs]

Cancelled == walkErr # NoErr

\* NewIndexingService: jobWalker: singlewalk.SingleWalker (one handler at a
\* time); WithConcurrency(n): parallelwalk.NewParallelWalk(n)
Workers == IF conc = 0 THEN 1 ELSE conc

SeqToBag(s) ==
  [x \in Range(s) |-> Cardinality({i \in 1..Len(s) : s[i] = x})]

\* a variant of firstError that keeps the latest error
lastError(current, err) == err

\* the walker keeps the error of the first handler that fails
firstError(current, err) == IF current = NoErr THEN err ELSE current

\* a variant of Quiescent that does not wait for the running handlers
QueueDrained(pending, handlers) == pending = EmptyBag

\* the walker's completion: no job is queued and no handler is running
Quiescent(pending, handlers) == pending = EmptyBag /\ handlers = {}

\* the effect of one step of the handler invocation f on the walker: a
\* handler that returns nil frees its worker; one that returns an error
\* keeps its worker until the walker has taken the error
HandlerStep(f, out, newqs, newcache, newhist) ==
  /\ running' = IF out.ret /\ out.err = NoErr THEN running \ {f}
                ELSE IF out.ret THEN (running \ {f}) \cup {ReturnedErr(f.job, out.err)}
                ELSE (running \ {f}) \cup {out.frame}
  /\ walkErr' = walkErr
  /\ queue' = queue (+) SetToBag(out.spawn)
  /\ qs' = newqs
  /\ claimCache' = newcache
  /\ hist' = [newhist EXCEPT
                !.created = @ \cup out.spawn,
                !.spawned = @ \cup {[parent |-> JobTuple(f.job), code |-> Protocol(f).code,
                                     record |-> Result(f), child |-> c] : c \in out.spawn},
                !.failures = IF out.fail # NoErr
                               THEN @ \cup {[job |-> JobTuple(f.job), err |-> out.fail]}
                               ELSE @,
                !.errs = IF out.ret /\ out.err # NoErr
                           THEN @ \cup {[job |-> JobTuple(f.job), err |-> out.err]}
                           ELSE @]
  /\ UNCHANGED <<sc, q, round, phase, conc, ret, first, redisVars, codecVars, entriesVars>>

(***************************************************************************)
(* Actions.                                                                *)
(***************************************************************************)
\* IndexingService.Query up to the call of the walker
Query(c) ==
  /\ phase = "idle"
  /\ round < MaxRounds
  /\ round' = round + 1
  /\ phase' = "walk"
  /\ conc' = c
  /\ queue' = SeqToBag(initialJobs(q.Hashes))
  /\ running' = {}
  /\ qs' = InitialState
  /\ walkErr' = NoErr
  /\ hist' = [EmptyHist EXCEPT !.created = Range(initialJobs(q.Hashes))]
  /\ UNCHANGED <<sc, q, claimCache, ret, first, redisVars, codecVars, entriesVars>>

\* a worker takes a job and calls the handler, which checks the visits
Start(j) ==
  /\ phase = "walk"
  /\ ~Cancelled
  /\ BagIn(j, queue)
  /\ Cardinality(running) < Workers
  /\ queue' = queue (-) SetToBag({j})
  /\ qs' = CmpSwap(qs, notVisited(qs, j), markVisited(qs, j))
  /\ IF notVisited(qs, j)
       THEN /\ running' = running \cup {Frame(j)}
            /\ hist' = [hist EXCEPT !.bodies = @ (+) SetToBag({JobTuple(j)})]
       ELSE /\ running' = running
            /\ hist' = [hist EXCEPT !.deduped = @ \cup {JobTuple(j)}]
  /\ UNCHANGED <<sc, q, round, phase, conc, walkErr, claimCache, ret, first, redisVars, codecVars, entriesVars>>

\* results, err := is.providerIndex.Find(...)
Find(f) ==
  /\ phase = "walk" /\ f \in running /\ f.pc = "find"
  /\ LET qk == QueryKey(f.job, q)
         results == ProviderIndexFind(sc, qk)
         out == IF Cancelled THEN Failed(ErrCancelled, findErr(f, ErrCancelled))
                ELSE IF f.job.mh \in sc.findErr THEN Failed(ErrFind, findErr(f, ErrFind))
                ELSE Loop([f EXCEPT !.results = results], 1, 1)
         call == [Hash |-> qk.Hash, TargetClaims |-> qk.TargetClaims, job |-> JobTuple(f.job)]
     IN  HandlerStep(f, out, qs, claimCache,
                     [hist EXCEPT !.finds = @ (+) SetToBag({call})])

\* url := is.fetchClaimUrl(*result.Provider, claimCid) for a record whose
\* Provider is nil: the dereference panics before any lookup is made, and
\* nothing recovers the panic: the Query call does not return.  (The same
\* dereference before blobIndexLookup.Find comes after this one, on the same
\* record.)
NilProviderPanic(f) ==
  /\ phase = "walk" /\ f \in running /\ f.pc = "lookup"
  /\ Result(f).Provider = Nil
  /\ phase' = "panic"
  /\ UNCHANGED <<sc, q, round, conc, queue, running, qs, walkErr, claimCache, ret, first,
                 hist, redisVars, codecVars, entriesVars>>

\* claim, err := is.claimLookup.LookupClaim(mhCtx, claimCid, url): the cache
\* is probed; a claim that is not cached is fetched next
LookupClaim(f) ==
  /\ phase = "walk" /\ f \in running /\ f.pc = "lookup"
  /\ Result(f).Provider # Nil
  /\ LET claimCid == Protocol(f).claim
         hit == ~Cancelled /\ ClaimCached(claimCache, claimCid)
         out == IF Cancelled THEN Failed(ErrCancelled, lookupErr(f, ErrCancelled))
                ELSE IF hit THEN WithClaim(f, Delegation(claimCid))
                ELSE GoesOn([f EXCEPT !.pc = "fetch"])
         act == [job |-> JobTuple(f.job), code |-> Protocol(f).code, claim |-> claimCid]
     IN  HandlerStep(f, out, qs, claimCache,
                     [hist EXCEPT !.acted = @ \cup {act},
                                  !.hits = IF hit THEN @ \cup {claimCid} ELSE @,
                                  !.fetched = IF hit THEN @ \cup {claimCid} ELSE @])

\* LookupClaim, continued: the claim is fetched from the origin and, when
\* that succeeds, stored in the cache and returned
FetchClaim(f) ==
  /\ phase = "walk" /\ f \in running /\ f.pc = "fetch"
  /\ LET claimCid == Protocol(f).claim
         ok == ~Cancelled /\ OriginHasClaim(sc, claimCid)
         out == IF Cancelled THEN Failed(ErrCancelled, lookupErr(f, ErrCancelled))
                ELSE IF ~ok THEN Failed(ErrClaim, lookupErr(f, ErrClaim))
                ELSE WithClaim(f, Delegation(claimCid))
     IN  HandlerStep(f, out, qs, IF ok THEN claimCache \cup {claimCid} ELSE claimCache,
                     [hist EXCEPT !.origin = IF Cancelled THEN @ ELSE @ (+) SetToBag({claimCid}),
                                  !.fetched = IF ok THEN @ \cup {claimCid} ELSE @])

\* a variant of Dispatch that follows the content of a location commitment
\* found by a job without indexForMh
DispatchFollowsLocation(f, cancelled) ==
  LET j == f.job
      p == Protocol(f)
      rest == Loop(f, f.ri, f.bi + 1)
  IN  IF p.code = EqualsClaimID
        THEN Spawn(f, {equalsJob(j, Result(f), p)}, cancelled, rest)
      ELSE IF p.code = IndexClaimID
        THEN Spawn(f, {indexJob(j, Result(f), p)}, cancelled, rest)
      ELSE IF j.indexForMh # Nil THEN GoesOn([f EXCEPT !.pc = "index"])
      ELSE Spawn(f, {job(Result(f).ContextID, Nil, Nil, locationJobType)}, cancelled, rest)

\* what follows the claim lookup for the block at hand: the switch on the
\* protocol type, up to the next call of a collaborator
Dispatch(f, cancelled) ==
  LET j == f.job
      p == Protocol(f)
      rest == Loop(f, f.ri, f.bi + 1)
  IN  IF p.code = EqualsClaimID
        THEN Spawn(f, {equalsJob(j, Result(f), p)}, cancelled, rest)
      ELSE IF p.code = IndexClaimID
        THEN Spawn(f, {indexJob(j, Result(f), p)}, cancelled, rest)
      ELSE IF j.indexForMh # Nil THEN GoesOn([f EXCEPT !.pc = "index"])
      ELSE rest

\* state.CmpSwap(... qs.qr.Claims[claimCid] = claim ...); the handler then
\* stands before the spawn of an equals or index claim, which is a call of
\* its own on the walker, or goes on with the switch for a location
\* commitment, which calls nothing before the next collaborator
InsertClaim(f) ==
  /\ phase = "walk" /\ f \in running /\ f.pc = "insert"
  /\ LET claimCid == Protocol(f).claim
         claim == Deref(f.claim)
         newqs == CmpSwap(qs, claimAbsent(qs, claimCid),
                              setClaim(qs, claimCid, claim))
         ins == [key |-> claimCid, by |-> JobTuple(f.job)]
         \* the Boolean CmpSwap returns: whether the update was applied
         swapped == claimAbsent(qs, claimCid)
         out == IF Protocol(f).code \in {EqualsClaimID, IndexClaimID}
                  THEN GoesOn([f EXCEPT !.pc = "spawn"])
                  ELSE Dispatch(f, Cancelled)
     IN  HandlerStep(f, out, newqs, claimCache,
                     [hist EXCEPT !.inserted = IF newqs # qs THEN @ \cup {ins} ELSE @,
                                  !.claimSwaps = IF swapped THEN @ (+) SetToBag({claimCid}) ELSE @,
                                  !.claimRefused = IF swapped THEN @ ELSE @ \cup {claimCid}])

\* a variant of IndexFind that hands the record at hand to the lookup
IndexFindLocationRecord(f) ==
  /\ phase = "walk" /\ f \in running /\ f.pc = "index"
  /\ LET contextID == Result(f).ContextID
         ok == ~Cancelled /\ IndexFound(sc, contextID)
         out == IF Cancelled THEN Failed(ErrCancelled, indexErr(f, ErrCancelled))
                ELSE IF ~ok THEN Failed(ErrIndex, indexErr(f, ErrIndex))
                ELSE GoesOn([f EXCEPT !.pc = "setIndex", !.index = Ptr(sc.indexes[contextID])])
         call == [contextID |-> contextID, provider |-> Result(f),
                  job |-> JobTuple(f.job), record |-> Result(f)]
     IN  HandlerStep(f, out, qs, claimCache,
                     [hist EXCEPT !.indexCalls = @ \cup {call},
                                  !.fetchedIdx = IF ok THEN @ \cup {contextID} ELSE @])

\* index, err := is.blobIndexLookup.Find(mhCtx, result.ContextID,
\*                  *j.indexProviderRecord, url, typedProtocol.Range)
IndexFind(f) ==
  /\ phase = "walk" /\ f \in running /\ f.pc = "index"
  /\ LET contextID == Result(f).ContextID
         ok == ~Cancelled /\ IndexFound(sc, contextID)
         out == IF Cancelled THEN Failed(ErrCancelled, indexErr(f, ErrCancelled))
                ELSE IF ~ok THEN Failed(ErrIndex, indexErr(f, ErrIndex))
                ELSE GoesOn([f EXCEPT !.pc = "setIndex", !.index = Ptr(sc.indexes[contextID])])
         call == [contextID |-> contextID, provider |-> Deref(f.job.indexProviderRecord),
                  job |-> JobTuple(f.job), record |-> Result(f)]
     IN  HandlerStep(f, out, qs, claimCache,
                     [hist EXCEPT !.indexCalls = @ \cup {call},
                                  !.fetchedIdx = IF ok THEN @ \cup {contextID} ELSE @])

\* if err := spawn(job{...}); err != nil { return err } for an equals claim
\* or an index claim, after the claim was recorded
SpawnFollowUp(f) ==
  /\ phase = "walk" /\ f \in running /\ f.pc = "spawn"
  /\ HandlerStep(f, Dispatch(f, Cancelled), qs, claimCache, hist)

\* state.CmpSwap(... qs.qr.Indexes.Set(result.ContextID, index) ...); the
\* shards that contain indexForMh are then spawned one by one
InsertIndex(f) ==
  /\ phase = "walk" /\ f \in running /\ f.pc = "setIndex"
  /\ LET contextID == Result(f).ContextID
         index == Deref(f.index)
         newqs == CmpSwap(qs, indexAbsent(qs, contextID),
                              setIndex(qs, contextID, index))
         todo == shardJobs(f.job, index)
         out == IF todo = {} THEN Loop(f, f.ri, f.bi + 1)
                ELSE GoesOn([f EXCEPT !.pc = "shards", !.todo = todo])
         ins == [key |-> contextID, by |-> JobTuple(f.job)]
         \* the Boolean CmpSwap returns: whether the update was applied
         swapped == indexAbsent(qs, contextID)
     IN  HandlerStep(f, out, newqs, claimCache,
                     [hist EXCEPT !.insertedIdx = IF newqs # qs THEN @ \cup {ins} ELSE @,
                                  !.indexSwaps = IF swapped THEN @ (+) SetToBag({contextID}) ELSE @,
                                  !.indexRefused = IF swapped THEN @ ELSE @ \cup {contextID}])

\* for shard, index := range shards { if index.Has(*j.indexForMh) {
\*   if err := spawn(job{shard, nil, nil, equalsOrLocationJobType}); ... } }
\* one spawn, for the shard the iteration of the map meets next
SpawnShard(f, j) ==
  /\ phase = "walk" /\ f \in running /\ f.pc = "shards" /\ j \in f.todo
  /\ LET rest == IF f.todo = {j} THEN Loop(f, f.ri, f.bi + 1)
                  ELSE GoesOn([f EXCEPT !.todo = @ \ {j}])
     IN  HandlerStep(f, Spawn(f, {j}, Cancelled, rest), qs, claimCache, hist)

\* the walker takes the error a handler returned: the first one cancels the
\* context of the walk and is kept, and the worker is free
HandlerReturn(f) ==
  /\ phase = "walk" /\ f \in running /\ f.pc = "returned"
  /\ running' = running \ {f}
  /\ walkErr' = firstError(walkErr, f.err)
  /\ UNCHANGED <<sc, q, round, phase, conc, queue, qs, claimCache, ret, first, hist,
                 redisVars, codecVars, entriesVars>>

\* the walker returns: no handler runs and the queue is empty, or a handler
\* has failed; IndexingService.Query returns the result and the error
WalkReturn ==
  /\ phase = "walk"
  /\ Quiescent(queue, running) \/ (Cancelled /\ running = {})
  /\ phase' = "idle"
  /\ ret' = QueryReturn(qs, walkErr)
  /\ first' = IF round = 1 THEN QueryReturn(qs, walkErr) ELSE first
  /\ UNCHANGED <<sc, q, round, conc, queue, running, qs, walkErr, claimCache, hist, redisVars, codecVars, entriesVars>>

Next ==
  \/ \E c \in 0..MaxWorkers : Query(c)
  \/ \E j \in BagToSet(queue) : Start(j)
  \/ \E f \in running : Find(f)
  \/ \E f \in running : NilProviderPanic(f)
  \/ \E f \in running : LookupClaim(f)
  \/ \E f \in running : FetchClaim(f)
  \/ \E f \in running : InsertClaim(f)
  \/ \E f \in running : SpawnFollowUp(f)
  \/ \E f \in running : IndexFind(f)
  \/ \E f \in running : InsertIndex(f)
  \/ \E f \in running : \E j \in f.todo : SpawnShard(f, j)
  \/ \E f \in running : HandlerReturn(f)
  \/ WalkReturn

Spec == Init /\ [][Next]_vars

(***************************************************************************)
(* The redis store under test: TestRedisStore builds a MockRedis with its  *)
(* options and calls the store.                                            *)
(***************************************************************************)
RedisErrors == {NoErr, SomethingWentWrong}

RedisInit ==
  /\ sc = ScDirect
  /\ q = [Hashes |-> <<>>, Match |-> [Subject |-> <<>>]]
  /\ round = 0 /\ phase = "idle" /\ conc = 0
  /\ queue = EmptyBag /\ running = {}
  /\ qs = InitialState /\ walkErr = NoErr /\ claimCache = {}
  /\ ret = NoReturn /\ first = NoReturn /\ hist = EmptyHist
  /\ \E eg, es, ex \in RedisErrors : mockRedis = NewMockRedis(eg, es, ex)
  /\ lastCall = NoCall
  /\ want = <<>>
  /\ input = <<>>
  /\ encoded = NotCalled
  /\ decoded = NotCalled
  /\ ds = EmptyDatastore
  /\ root = Nil
  /\ iter = NotIterating

\* store.Set(ctx, k, value, expires)
RedisSet(k, value, expires) ==
  LET r == StoreSet(mockRedis, k, value, expires)
  IN  /\ mockRedis' = r.m
      /\ lastCall' = [op |-> "Set", key |-> k, value |-> value, expires |-> expires,
                      err |-> r.err]
      /\ want' = IF r.err = NoErr
                   THEN (k :> [value |-> value, expires |-> expires]) @@ want
                   ELSE want
      /\ UNCHANGED <<queryVars, codecVars, entriesVars>>

\* store.SetExpirable(ctx, k, expires)
RedisSetExpirable(k, expires) ==
  LET r == StoreSetExpirable(mockRedis, k, expires)
  IN  /\ mockRedis' = r.m
      /\ lastCall' = [op |-> "SetExpirable", key |-> k, value |-> "",
                      expires |-> expires, err |-> r.err]
      /\ want' = IF r.err = NoErr /\ k \in DOMAIN want
                   THEN [want EXCEPT ![k].expires = expires]
                   ELSE want
      /\ UNCHANGED <<queryVars, codecVars, entriesVars>>

\* store.Get(ctx, k)
RedisGet(k) ==
  LET r == StoreGet(mockRedis, k)
  IN  /\ mockRedis' = r.m
      /\ lastCall' = [op |-> "Get", key |-> k, value |-> r.value, expires |-> FALSE,
                      err |-> r.err]
      /\ UNCHANGED <<want, queryVars, codecVars, entriesVars>>

RedisNext ==
  \/ \E k \in RedisKeys, value \in RedisValues, expires \in BOOLEAN :
       RedisSet(k, value, expires)
  \/ \E k \in RedisKeys, expires \in BOOLEAN : RedisSetExpirable(k, expires)
  \/ \E k \in RedisKeys : RedisGet(k)

RedisSpec == RedisInit /\ [][RedisNext]_vars

(***************************************************************************)
(* The provider cache encoding applied to lists of provider records.       *)
(***************************************************************************)
CodecInit ==
  /\ sc = ScDirect
  /\ q = [Hashes |-> <<>>, Match |-> [Subject |-> <<>>]]
  /\ round = 0 /\ phase = "idle" /\ conc = 0
  /\ queue = EmptyBag /\ running = {}
  /\ qs = InitialState /\ walkErr = NoErr /\ claimCache = {}
  /\ ret = NoReturn /\ first = NoReturn /\ hist = EmptyHist
  /\ mockRedis = NewMockRedis(NoErr, NoErr, NoErr)
  /\ lastCall = NoCall
  /\ want = <<>>
  /\ input \in SeqsUpTo(CodecRecords, MaxRecords)
  /\ encoded = NotCalled
  /\ decoded = NotCalled
  /\ ds = EmptyDatastore
  /\ root = Nil
  /\ iter = NotIterating

\* data, err := providerresults.MarshalCBOR(records)
Marshal ==
  /\ ~encoded.called
  /\ encoded' = [called |-> TRUE, via |-> "cbor", data |-> MarshalCBOR(input).data,
                  err |-> MarshalCBOR(input).err]
  /\ UNCHANGED <<input, decoded, queryVars, redisVars, entriesVars>>

\* records, err := providerresults.UnmarshalCBOR(data)
Unmarshal ==
  /\ encoded.called /\ encoded.via = "cbor" /\ encoded.err = NoErr
  /\ ~decoded.called
  /\ decoded' = [called |-> TRUE, records |-> UnmarshalCBOR(encoded.data).records,
                  err |-> UnmarshalCBOR(encoded.data).err]
  /\ UNCHANGED <<input, encoded, queryVars, redisVars, entriesVars>>

\* the redis provider store encodes a value
ToRedis ==
  /\ ~encoded.called
  /\ encoded' = [called |-> TRUE, via |-> "redis",
                  data |-> providerResultsToRedis(input).data,
                  err |-> providerResultsToRedis(input).err]
  /\ UNCHANGED <<input, decoded, queryVars, redisVars, entriesVars>>

\* the redis provider store decodes a value
FromRedis ==
  /\ encoded.called /\ encoded.via = "redis" /\ encoded.err = NoErr
  /\ ~decoded.called
  /\ decoded' = [called |-> TRUE,
                  records |-> providerResultsFromRedis(encoded.data).records,
                  err |-> providerResultsFromRedis(encoded.data).err]
  /\ UNCHANGED <<input, encoded, queryVars, redisVars, entriesVars>>

CodecNext == Marshal \/ Unmarshal \/ ToRedis \/ FromRedis

CodecSpec == CodecInit /\ [][CodecNext]_vars

(***************************************************************************)
(* Entries over the chains of a datastore, with a consumer that may stop.  *)
(***************************************************************************)
EntriesInit ==
  /\ sc = ScDirect
  /\ q = [Hashes |-> <<>>, Match |-> [Subject |-> <<>>]]
  /\ round = 0 /\ phase = "idle" /\ conc = 0
  /\ queue = EmptyBag /\ running = {}
  /\ qs = InitialState /\ walkErr = NoErr /\ claimCache = {}
  /\ ret = NoReturn /\ first = NoReturn /\ hist = EmptyHist
  /\ mockRedis = NewMockRedis(NoErr, NoErr, NoErr)
  /\ lastCall = NoCall
  /\ want = <<>>
  /\ input = <<>>
  /\ encoded = NotCalled
  /\ decoded = NotCalled
  /\ ds \in Datastores
  /\ root \in {Nil} \cup {Ptr(link) : link \in 1..(MaxChunks + 1)}
  /\ iter = NotIterating

\* the consumer ranges over Entries(ctx, ds, root): cur := root
Entries ==
  /\ iter.pc = "idle"
  /\ iter' = [iter EXCEPT !.pc = "loop", !.cur = root]
  /\ UNCHANGED <<ds, root, queryVars, redisVars, codecVars>>

\* for cur != nil { v, err := ds.Get(...); ent, err := BytesToEntryChunk(...)
EntriesGet ==
  /\ iter.pc = "loop" /\ iter.cur # Nil
  /\ LET v == dsGet(ds, Deref(iter.cur))
         ent == BytesToEntryChunk(v.val)
         read == [iter EXCEPT !.reads = Append(@, Deref(iter.cur))]
     IN  iter' = IF v.err # NoErr THEN yieldErr(read, v.err)
                 ELSE IF ent.err # NoErr THEN yieldErr(read, ent.err)
                 ELSE [read EXCEPT !.pc = "range", !.ent = Ptr(ent.val), !.i = 1]
  /\ UNCHANGED <<ds, root, queryVars, redisVars, codecVars>>

\* for _, d := range ent.Entries { if !yield(d, nil) { return } }
EntriesYield(more) ==
  /\ iter.pc = "range" /\ iter.i <= Len(Deref(iter.ent).Entries)
  /\ iter' = yielded([iter EXCEPT !.yielded =
                                    Append(@, [mh |-> Deref(iter.ent).Entries[iter.i],
                                               err |-> NoErr])],
                     more)
  /\ UNCHANGED <<ds, root, queryVars, redisVars, codecVars>>

\* cur = ent.Next
EntriesAdvance ==
  /\ iter.pc = "range" /\ iter.i > Len(Deref(iter.ent).Entries)
  /\ iter' = [iter EXCEPT !.pc = "loop", !.cur = Deref(iter.ent).Next, !.ent = Nil, !.i = 0]
  /\ UNCHANGED <<ds, root, queryVars, redisVars, codecVars>>

\* the loop ends: cur == nil
EntriesReturn ==
  /\ iter.pc = "loop" /\ iter.cur = Nil
  /\ iter' = [iter EXCEPT !.pc = "done"]
  /\ UNCHANGED <<ds, root, queryVars, redisVars, codecVars>>

EntriesNext ==
  \/ Entries
  \/ EntriesGet
  \/ \E more \in BOOLEAN : EntriesYield(more)
  \/ EntriesAdvance
  \/ EntriesReturn

EntriesSpec == EntriesInit /\ [][EntriesNext]_vars

(***************************************************************************)
(* The claims.                                                             *)
(***************************************************************************)
Returned == phase = "idle" /\ ret.called
Succeeded == Returned /\ ret.err = NoErr
KeyOfTuple(t) == key(job(t[1], t[3], Nil, t[2]))
FindsFor(t) == {c \in BagToSet(hist.finds) : c.job = t}
SumCopies(B, S) ==
  LET RECURSIVE Sum(_)
      Sum(T) == IF T = {} THEN 0
                ELSE LET x == CHOOSE y \in T : TRUE IN CopiesIn(x, B) + Sum(T \ {x})
  IN  Sum(S)

\* C1: within one Query the handler body after the visits check runs at most
\* once for each job key: no two executions of the body share a key, Find is
\* called at most once for a key, a job whose key was visited returned nil
\* without a Find of its own, and after a successful query every multihash
\* of the query, however often it is listed, was looked up exactly once as a
\* standard job
C1_BodyOncePerKey ==
  /\ \A t1, t2 \in BagToSet(hist.bodies) :
       KeyOfTuple(t1) = KeyOfTuple(t2) => t1 = t2 /\ CopiesIn(t1, hist.bodies) = 1
  /\ \A t \in BagToSet(hist.bodies) \cup hist.deduped :
       SumCopies(hist.finds, FindsFor(t)) <= 1
  /\ Succeeded =>
       \A i \in 1..Len(q.Hashes) :
         SumCopies(hist.finds, FindsFor(<<q.Hashes[i], standardJobType, Nil>>)) = 1

\* a query that lists H1 twice has run with two workers: the second job was
\* deduplicated and Find was called once
C1_Witness ==
  /\ Succeeded /\ conc = 2 /\ q.Hashes = <<H1, H1>>
  /\ <<H1, standardJobType, Nil>> \in hist.deduped
  /\ SumCopies(hist.finds, FindsFor(<<H1, standardJobType, Nil>>)) = 1

\* the multihashes a job of a query on the backend can carry
Multihashes(backend) ==
  LET records == UNION {Range(backend.providers[m]) : m \in DOMAIN backend.providers}
      blocks == UNION {Range(r.Metadata.protocols) : r \in records}
  IN  backend.roots \cup DOMAIN backend.providers
        \cup {r.ContextID : r \in records}
        \cup {b.equals : b \in {x \in blocks : x.code = EqualsClaimID}}
        \cup {b.index : b \in {x \in blocks : x.code = IndexClaimID}}
        \cup UNION {DOMAIN backend.indexes[c] : c \in DOMAIN backend.indexes}

\* the number of tuples (mh, kind, indexForMh) over these multihashes, which
\* bounds the number of job keys of a query on the backend
KeyBound(backend) ==
  LET n == Cardinality(Multihashes(backend))
  IN  3 * n * (n + 1)

\* the sum of the values of the function weight over the set S
SumOver(S, weight) ==
  LET RECURSIVE Sum(_)
      Sum(T) == IF T = {} THEN 0
                ELSE LET x == CHOOSE y \in T : TRUE IN weight[x] + Sum(T \ {x})
  IN  Sum(S)

Max(S) == CHOOSE x \in S : \A y \in S : y <= x

\* the largest number of protocol blocks Find can return for a multihash and
\* the largest number of shards of an index
MaxBlocks(backend) ==
  Max({0} \cup {SumOver(1..Len(backend.providers[m]),
                        [i \in 1..Len(backend.providers[m]) |->
                           Len(backend.providers[m][i].Metadata.protocols)]) :
                  m \in DOMAIN backend.providers})
MaxShards(backend) ==
  Max({1} \cup {Cardinality(DOMAIN backend.indexes[c]) : c \in DOMAIN backend.indexes})

\* the steps a handler takes for one block (lookup, fetch, insert, spawn or
\* index, setIndex, one step per shard spawned, the return of an error) plus
\* the jobs it spawns for it, at most
BlockCost(backend) == 7 + 2 * MaxShards(backend)

\* these measures of the backends of the model
Measures ==
  [b \in Backends |->
     [keys |-> KeyBound(b), blocks |-> MaxBlocks(b), cost |-> BlockCost(b)]]

\* the protocol blocks of the results from position (ri, bi) on
BlocksFrom(results, ri, bi) ==
  SumOver(ri..Len(results),
          [i \in ri..Len(results) |->
             IF i = ri THEN Len(results[i].Metadata.protocols) - bi + 1
             ELSE Len(results[i].Metadata.protocols)])

\* an upper bound of the steps the handler invocation f still takes plus the
\* jobs it still spawns
Left(f) ==
  LET B == Measures[sc].cost
      cur == CASE f.pc = "lookup" -> B
               [] f.pc = "fetch" -> B - 1
               [] f.pc = "insert" -> B - 2
               [] f.pc = "spawn" -> B - 3
               [] f.pc = "index" -> B - 3
               [] f.pc = "setIndex" -> B - 4
               [] f.pc = "shards" -> 1 + 2 * Cardinality(f.todo)
  IN  IF f.pc = "returned" THEN 1
      ELSE IF f.pc = "find" THEN 2 + Measures[sc].blocks * B
      ELSE (BlocksFrom(f.results, f.ri, f.bi) - 1) * B + cur

\* the variant of a walk: the keys not yet visited, each weighted with more
\* than a whole handler body, the queued jobs and the work left in progress
Variant ==
  (2 + Measures[sc].blocks * Measures[sc].cost)
      * (Measures[sc].keys - Cardinality(qs.visits))
    + BagCardinality(queue)
    + SumOver(running, [f \in running |-> Left(f)])

\* for a backend whose claim graph is finite, cycles of equals and index claims
\* included, with the serial walker and with any number of workers: a walk
\* never blocks (while it goes on some step can be taken, so no spawn waits
\* forever), every step of a walk decreases the natural number Variant (so a
\* walk takes finitely many steps: a spawned job adds a new key to visits or
\* is deduplicated), at the return of a successful walk every job created was
\* executed or deduplicated, and a call ends without a return only by the
\* panic of a handler that dereferences the nil Provider of a record
TerminatesUnlessPanic ==
  /\ [](phase = "walk" => ENABLED Next /\ Variant >= 0)
  /\ [](Succeeded => \A j \in hist.created :
          /\ key(j) \in qs.visits
          /\ JobTuple(j) \in BagToSet(hist.bodies) \cup hist.deduped)
  /\ [](phase = "panic" => \E f \in running :
          f.pc = "lookup" /\ Result(f).Provider = Nil)
  /\ [][phase = "walk" /\ phase' = "walk" => Variant' < Variant]_vars

\* C2: for a backend whose claim graph is finite, cycles of equals and index
\* claims included, every Query call terminates, with the serial walker and
\* with any number of workers: a call that has begun and has not returned can
\* always take a step (no spawn waits forever, and the walker eventually
\* returns), every step of a walk decreases the natural number Variant (a
\* spawned job adds a new key to visits or is deduplicated), and at the
\* return of a successful walk every job created was executed or deduplicated
C2_QueryTerminates ==
  /\ [](phase # "idle" => ENABLED Next /\ Variant >= 0)
  /\ [](Succeeded => \A j \in hist.created :
          /\ key(j) \in qs.visits
          /\ JobTuple(j) \in BagToSet(hist.bodies) \cup hist.deduped)
  /\ [][phase = "walk" /\ phase' = "walk" => Variant' < Variant]_vars

\* a parallel query over the cycle of equals claims H1 = H2 = H1 has
\* returned; the job that closed the cycle was deduplicated
CycleClosed ==
  /\ Succeeded /\ conc = 2 /\ sc = ScMulti
  /\ <<H2, locationJobType, Nil>> \in hist.deduped
  /\ \A j \in hist.created : key(j) \in qs.visits

\* the results of the first and the latest Query call agree as sets
SameResult(a, b) ==
  /\ DOMAIN a.qr.Claims = DOMAIN b.qr.Claims
  /\ DOMAIN a.qr.Indexes = DOMAIN b.qr.Indexes

\* C3: for a fixed query and a stable backend every Query call that completes
\* without error returns the same set of claim cids and the same set of index
\* context ids as the first such call, whatever the walker, the number of
\* workers and the interleaving of the handlers
C3_ResultDeterministic ==
  (Returned /\ ret.err = NoErr /\ first.called /\ first.err = NoErr)
    => SameResult(ret, first)

\* C4: a handler of a job of kind K looks up a claim, and so records it and
\* spawns for it, only for blocks whose protocol code is in targetClaims(K);
\* a location job spawns nothing
C4_ActsOnTargetClaimsOnly ==
  /\ \A a \in hist.acted : a.code \in Range(targetClaims(a.job[2]))
  /\ \A s \in hist.spawned : s.parent[2] # locationJobType

\* C5: jobs whose tuples (mh, kind, indexForMh) differ have different keys,
\* so a job is deduplicated only when a job of the same tuple ran its body
C5_KeyIsIdentity ==
  /\ \A j1, j2 \in hist.created :
       JobTuple(j1) # JobTuple(j2) => key(j1) # key(j2)
  /\ \A t \in hist.deduped : t \in BagToSet(hist.bodies)

\* the handler of the job with tuple t is in progress
InProgress(t) == \E f \in running : JobTuple(f.job) = t /\ f.pc # "returned"

\* C6: an error handed to a handler by ProviderIndex.Find, by the decoding of
\* metadata, by LookupClaim, by BlobIndexLookup.Find or by spawn makes the
\* handler return that error at once: the step that meets the error inserts
\* nothing and spawns nothing (when the error is that of the decoding of the
\* next record, the step is the Find, the insertion or the spawn before that
\* decoding and does nothing but that), the handler does nothing after it and
\* its job is not run again, the walker takes the error or has taken one
\* before, and Query returns a non-nil error
C6_ErrorAbortsHandler ==
  /\ [](/\ \A x \in hist.failures :
             \/ walkErr # NoErr
             \/ \E f \in running :
                  f.pc = "returned" /\ JobTuple(f.job) = x.job /\ f.err = x.err
        /\ (hist.failures # {} /\ Returned) => ret.err # NoErr)
  /\ [](\A x \in hist.failures :
          ~InProgress(x.job) /\ CopiesIn(x.job, hist.bodies) = 1)
  /\ [][\A f \in running \ running' :
          \A x \in hist'.failures \ hist.failures :
            /\ x.job = JobTuple(f.job)
            /\ ReturnedErr(f.job, x.err) \in running'
            /\ [job |-> x.job, err |-> x.err] \in hist'.errs
            /\ (x.err # ErrDecode \/ f.pc \notin {"insert", "setIndex"}) => qs'.qr = qs.qr
            /\ (x.err # ErrDecode \/ f.pc \notin {"spawn", "shards"}) =>
                 hist'.created = hist.created /\ queue' = queue
            /\ Cardinality(hist'.created \ hist.created) <= 1]_vars

\* a parallel query has returned the error of a failed claim lookup after a
\* claim was recorded, and a second handler was stopped by the cancellation
C6_Witness ==
  /\ Returned /\ ret.err = ErrClaim /\ conc = 2
  /\ \E x \in hist.failures : x.err = ErrClaim
  /\ \E x \in hist.failures : x.err = ErrCancelled
  /\ hist.inserted # {}

\* C7: when the walk fails Query returns, next to the error, the result
\* accumulated so far: its Claims and Indexes are exactly the entries the
\* handlers inserted before the walk stopped, and a result value is produced
\* whatever the error
C7_PartialResultOnError ==
  /\ [](Returned /\ ret.err # NoErr =>
          /\ ret.qr = qs.qr
          /\ DOMAIN ret.qr.Claims = {i.key : i \in hist.inserted}
          /\ DOMAIN ret.qr.Indexes = {i.key : i \in hist.insertedIdx})
  /\ [][phase = "walk" /\ phase' = "idle" =>
          ret'.called /\ ret'.err = walkErr /\ ret'.qr = qs.qr]_vars

\* a query has failed after a claim and an index were recorded, and has
\* returned both with the error
C7_Witness ==
  /\ Returned /\ ret.err = ErrClaim
  /\ DOMAIN ret.qr.Claims # {}
  /\ hist.inserted # {}

\* C8: in every state each entry of Claims is the delegation a successful
\* LookupClaim returned for its claim cid, and each entry of Indexes is the
\* index a successful BlobIndexLookup.Find returned for its context id
C8_ResultEntriesFetched ==
  /\ \A c \in DOMAIN qs.qr.Claims :
       /\ c \in hist.fetched
       /\ OriginHasClaim(sc, c)
       /\ qs.qr.Claims[c] = Delegation(c)
  /\ \A x \in DOMAIN qs.qr.Indexes :
       /\ x \in hist.fetchedIdx
       /\ IndexFound(sc, x)
       /\ qs.qr.Indexes[x] = sc.indexes[x]

\* the lookup of claim C2 has failed: C2 is not in the result, the claim
\* fetched before it is
C8_Witness ==
  /\ sc = ScClaimErr
  /\ \E x \in hist.failures : x.err = ErrClaim
  /\ "C2" \notin DOMAIN qs.qr.Claims
  /\ \E c \in DOMAIN qs.qr.Claims : qs.qr.Claims[c] = Delegation(c)

\* C9: every ProviderIndex.Find call of a query asks for the multihash of its
\* job and for the protocol codes of the job's kind: a standard job for equals
\* claims, index claims and location commitments, a location job for location
\* commitments, an equals-or-location job for index claims and location
\* commitments; every handler body, of initial and of spawned jobs, calls Find
C9_FindAsksTargetClaims ==
  /\ \A c \in BagToSet(hist.finds) :
       /\ c.Hash = c.job[1]
       /\ c.job[2] = standardJobType =>
            Range(c.TargetClaims) = {EqualsClaimID, IndexClaimID, LocationCommitmentID}
       /\ c.job[2] = locationJobType =>
            Range(c.TargetClaims) = {LocationCommitmentID}
       /\ c.job[2] = equalsOrLocationJobType =>
            Range(c.TargetClaims) = {IndexClaimID, LocationCommitmentID}
  /\ \A t \in BagToSet(hist.bodies) :
       FindsFor(t) = {} => \E f \in running : JobTuple(f.job) = t /\ f.pc = "find"

\* Find was called for jobs of the three kinds, spawned ones among them
C9_Witness ==
  /\ \E c \in BagToSet(hist.finds) : c.job[2] = standardJobType
  /\ \E c \in BagToSet(hist.finds) :
       c.job[2] = locationJobType /\ c.job[1] \notin Range(q.Hashes)
  /\ \E c \in BagToSet(hist.finds) :
       c.job[2] = equalsOrLocationJobType /\ c.job[3] # Nil

\* C10: for every claim in the result at most one LookupClaim of the query
\* fetched it from the origin, handlers that run concurrently included
C10_OneOriginFetchPerClaim ==
  \A c \in DOMAIN qs.qr.Claims : CopiesIn(c, hist.origin) <= 1

\* C11: the walker signals success only at quiescence: a Query call returns
\* without error only from a state in which no job is queued and no handler
\* is running, with the serial walker and with workers alike, so that at a
\* successful return every initial and every spawned job was taken from the
\* queue and its handler has returned
C11_SuccessOnlyAtQuiescence ==
  /\ [][phase = "walk" /\ phase' = "idle" /\ ret'.err = NoErr =>
          queue = EmptyBag /\ running = {}]_vars
  /\ [](Succeeded =>
          /\ queue = EmptyBag /\ running = {}
          /\ \A j \in hist.created :
               JobTuple(j) \in BagToSet(hist.bodies) \cup hist.deduped)

\* a parallel query over an index has returned without error; jobs were
\* spawned by handlers and all of them were run
C11_Witness ==
  /\ Succeeded /\ conc = 2 /\ sc = ScIndex
  /\ hist.spawned # {}
  /\ \A s \in hist.spawned : JobTuple(s.child) \in BagToSet(hist.bodies) \cup hist.deduped

\* C12: the first handler error the walker takes cancels the walk and is the
\* error Query returns, also when other handlers fail after it or have
\* failed next to it; from the first error on no queued job is started
C12_FirstErrorWins ==
  /\ [][walkErr = NoErr /\ walkErr' # NoErr =>
          \E f \in running \ running' :
            /\ f.pc = "returned" /\ f.err = walkErr'
            /\ [job |-> JobTuple(f.job), err |-> walkErr'] \in hist.errs]_vars
  /\ [][walkErr # NoErr /\ phase = "walk" /\ phase' = "walk" =>
          /\ walkErr' = walkErr
          /\ hist'.bodies = hist.bodies /\ hist'.deduped = hist.deduped
          /\ queue' = queue]_vars
  /\ [][phase = "walk" /\ phase' = "idle" => ret'.err = walkErr]_vars

\* with two workers a claim lookup failed first, a second handler failed
\* with the cancellation after it, a queued job was abandoned, and Query
\* returned the first error
C12_Witness ==
  /\ Returned /\ conc = 2 /\ ret.err = ErrClaim
  /\ \E x \in hist.errs : x.err = ErrCancelled
  /\ queue # EmptyBag

\* the expiration the store gives to a key that expires or not
ExpirationOf(expires) == IF expires THEN DefaultExpire ELSE 0

\* C13: after any sequence of calls of the redis store, each key that was
\* Set holds the value of its latest successful Set, with the expiration
\* DefaultExpire if the latest successful Set or SetExpirable on the key
\* passed expires = true and 0 if it passed false, no other key is stored,
\* and a Get the client does not fail returns that value, or ErrKeyNotFound
\* for a key never Set
C13_StoreHoldsLatestSet ==
  /\ DOMAIN mockRedis.data = DOMAIN want
  /\ \A k \in DOMAIN want :
       mockRedis.data[k] = redisValue(want[k].value, ExpirationOf(want[k].expires))
  /\ (lastCall.op = "Get" /\ mockRedis.errGet = NoErr) =>
       IF lastCall.key \in DOMAIN want
         THEN lastCall.err = NoErr /\ lastCall.value = want[lastCall.key].value
         ELSE lastCall.err = ErrKeyNotFound

\* key1 and key2 are stored without expiration, after a Set or SetExpirable
\* with expires = false as the latest on each, and a Get of key1 returned
\* its value
C13_Witness ==
  /\ "key1" \in DOMAIN want /\ "key2" \in DOMAIN want
  /\ mockRedis.data["key1"] = redisValue("value1", 0)
  /\ mockRedis.data["key2"] = redisValue("value2", 0)
  /\ want["key1"].expires = FALSE
  /\ lastCall.op = "Get" /\ lastCall.key = "key1" /\ lastCall.value = "value1"

\* the error the store returns when the client fails with SomethingWentWrong
WrappedError == "error accessing redis: something went wrong"

\* C14: when the client fails on Get, on Set or on the change of expiration
\* of SetExpirable, the call of the store returns the client's error wrapped
\* as "error accessing redis: <cause>" and the stored data stay as they
\* were: no key is created and no value or expiration is changed
C14_ClientErrorIsWrapped ==
  /\ [](/\ (lastCall.op = "Get" /\ mockRedis.errGet # NoErr)
             => lastCall.err = WrappedError
        /\ (lastCall.op = "Set" /\ mockRedis.errSet # NoErr)
             => lastCall.err = WrappedError
        /\ (lastCall.op = "SetExpirable" /\ mockRedis.errSetExpiration # NoErr)
             => lastCall.err = WrappedError)
  /\ [][(lastCall'.op # "none" /\ lastCall'.err \notin {NoErr, ErrKeyNotFound})
          => mockRedis' = mockRedis /\ want' = want]_vars
  /\ [](mockRedis.errSet # NoErr => mockRedis.data = <<>>)

\* a key is stored to expire, and a SetExpirable that should make it
\* persistent failed in the client: the call returned the wrapped error and
\* the key still expires
C14_Witness ==
  /\ lastCall.op = "SetExpirable" /\ lastCall.expires = FALSE
  /\ lastCall.err = WrappedError
  /\ lastCall.key \in DOMAIN mockRedis.data
  /\ mockRedis.data[lastCall.key].expires = DefaultExpire

\* C15: for every list of provider records that MarshalCBOR encodes without
\* error, UnmarshalCBOR of the encoded bytes returns, without error, a list
\* of the same length whose records are pairwise Equals to the originals;
\* the same for providerResultsFromRedis after providerResultsToRedis
C15_RoundTrip ==
  decoded.called =>
    /\ decoded.err = NoErr
    /\ Len(decoded.records) = Len(input)
    /\ \A i \in 1..Len(input) : Equals(input[i], decoded.records[i])

\* C16 as stated, for every spawn of an equals claim block: for every equals
\* claim block the handler of job j processes, exactly one job is spawned, of
\* kind location and with no indexForMh; its multihash is the claim's equals
\* hash when that differs from j.mh and the record's contextID otherwise, and
\* it is not j.mh when the contextID holds the content multihash
C16_EqualsSpawnsOtherSide ==
  [][\A f \in running :
       (f.pc = "spawn" /\ Protocol(f).code = EqualsClaimID /\ f \notin running') =>
         \E child \in BagToSet(queue') :
           /\ queue' = queue (+) SetToBag({child})
           /\ child.jobType = locationJobType
           /\ child.indexForMh = Nil
           /\ child.indexProviderRecord = Nil
           /\ Protocol(f).equals # f.job.mh => child.mh = Protocol(f).equals
           /\ Protocol(f).equals = f.job.mh => child.mh = Result(f).ContextID
           /\ Result(f).ContextID # Protocol(f).equals => child.mh # f.job.mh]_vars

\* C16, amended: for every equals claim block the handler of job j processes,
\* spawn is called once.  In a walk that no handler has failed, exactly one
\* job is spawned, of kind location and with no indexForMh; its multihash is
\* the claim's equals hash when that differs from j.mh and the record's
\* contextID otherwise, and it is not j.mh when the contextID holds the
\* content multihash.  In a walk that a handler has failed, no job is
\* spawned and the handler returns the error of the spawn
C16_EqualsSpawnsOtherSideOrFails ==
  [][\A f \in running :
       (f.pc = "spawn" /\ Protocol(f).code = EqualsClaimID /\ f \notin running') =>
         /\ ~Cancelled =>
              \E child \in BagToSet(queue') :
                /\ queue' = queue (+) SetToBag({child})
                /\ child.jobType = locationJobType
                /\ child.indexForMh = Nil
                /\ child.indexProviderRecord = Nil
                /\ Protocol(f).equals # f.job.mh => child.mh = Protocol(f).equals
                /\ Protocol(f).equals = f.job.mh => child.mh = Result(f).ContextID
                /\ Result(f).ContextID # Protocol(f).equals => child.mh # f.job.mh
                /\ \A e \in hist'.errs \ hist.errs : e.err # ErrCancelled
         /\ Cancelled =>
              /\ queue' = queue
              /\ hist'.created = hist.created
              /\ {g \in running' : g.job = f.job} = {ReturnedErr(f.job, ErrCancelled)}
              /\ [job |-> JobTuple(f.job), err |-> ErrCancelled] \in hist'.errs
              /\ Protocol(f).claim \in DOMAIN qs'.qr.Claims]_vars

\* an equals claim was followed from the content side to its equals hash and
\* from the equals side to the contextID of its record
C16_Witness ==
  /\ \E s \in hist.spawned :
       /\ s.code = EqualsClaimID
       /\ s.parent[1] = s.record.ContextID
       /\ s.child.mh # s.record.ContextID
  /\ \E s \in hist.spawned :
       /\ s.code = EqualsClaimID
       /\ s.parent[1] # s.record.ContextID
       /\ s.child.mh = s.record.ContextID

\* C17 as stated, for every step of the handler after the index was fetched:
\* when a job with indexForMh set has fetched the shard index of a location
\* commitment, the handler spawns one job {mh: shardKey, kind:
\* equals_or_location, indexForMh unset} for every shard whose entries
\* contain indexForMh, and no job for any other shard
C17_SpawnsShardsHoldingTarget ==
  [][\A f \in running :
       LET index == Deref(f.index)
           target == Deref(f.job.indexForMh)
           holding == {job(shard, Nil, Nil, equalsOrLocationJobType) :
                         shard \in {x \in DOMAIN index : target \in index[x]}}
           next == {g \in running' : g.job = f.job}
       IN  /\ (f.pc = "setIndex" /\ f \notin running') =>
                /\ f.job.indexForMh # Nil
                /\ Protocol(f).code = LocationCommitmentID
                /\ queue' = queue
                /\ holding # {} => \E g \in next : g.pc = "shards" /\ g.todo = holding
                /\ holding = {} => \A g \in next : g.pc # "shards"
           /\ (f.pc = "shards" /\ f \notin running') =>
                /\ f.todo # {} /\ f.todo \subseteq holding
                /\ \E j \in f.todo :
                     /\ queue' = queue (+) SetToBag({j})
                     /\ f.todo # {j} => \E g \in next : g.pc = "shards" /\ g.todo = f.todo \ {j}
                     /\ f.todo = {j} => \A g \in next : g.pc # "shards"]_vars

\* C17, amended: when a job with indexForMh set has fetched the shard index
\* of a location commitment, the handler calls spawn, one shard after the
\* other, with a job {mh: shardKey, kind: equals_or_location, indexForMh
\* unset} for the shards whose entries contain indexForMh and for no other
\* shard.  In a walk that no handler has failed each call spawns its job and
\* the handler goes on to the shards that are left.  In a walk that a handler
\* has failed the call spawns nothing, the handler returns the error of the
\* spawn and the shards that are left get no job from it
C17_SpawnsShardsHoldingTargetOrFails ==
  [][\A f \in running :
       LET index == Deref(f.index)
           target == Deref(f.job.indexForMh)
           holding == {job(shard, Nil, Nil, equalsOrLocationJobType) :
                         shard \in {x \in DOMAIN index : target \in index[x]}}
           next == {g \in running' : g.job = f.job}
       IN  /\ (f.pc = "setIndex" /\ f \notin running') =>
                /\ f.job.indexForMh # Nil
                /\ Protocol(f).code = LocationCommitmentID
                /\ queue' = queue
                /\ holding # {} => \E g \in next : g.pc = "shards" /\ g.todo = holding
                /\ holding = {} => \A g \in next : g.pc # "shards"
           /\ (f.pc = "shards" /\ f \notin running' /\ ~Cancelled) =>
                /\ f.todo # {} /\ f.todo \subseteq holding
                /\ \E j \in f.todo :
                     /\ queue' = queue (+) SetToBag({j})
                     /\ f.todo # {j} => \E g \in next : g.pc = "shards" /\ g.todo = f.todo \ {j}
                     /\ f.todo = {j} => \A g \in next : g.pc # "shards"
           /\ (f.pc = "shards" /\ f \notin running' /\ Cancelled) =>
                /\ f.todo # {} /\ f.todo \subseteq holding
                /\ queue' = queue
                /\ hist'.created = hist.created
                /\ next = {ReturnedErr(f.job, ErrCancelled)}
                /\ [job |-> JobTuple(f.job), err |-> ErrCancelled] \in hist'.errs]_vars

\* a job was spawned for a shard that holds indexForMh while the fetched index
\* has another shard, which does not hold it and for which no job was created
C17_Witness ==
  \E s \in hist.spawned :
    /\ s.code = LocationCommitmentID
    /\ s.parent[3] # Nil
    /\ s.record.ContextID \in DOMAIN qs.qr.Indexes
    /\ Deref(s.parent[3]) \in qs.qr.Indexes[s.record.ContextID][s.child.mh]
    /\ \E other \in DOMAIN qs.qr.Indexes[s.record.ContextID] :
         /\ Deref(s.parent[3]) \notin qs.qr.Indexes[s.record.ContextID][other]
         /\ \A c \in hist.created : c.mh # other

\* C18: a location commitment block processed by a job whose indexForMh is
\* unset is terminal: its claim is in Claims, no job is spawned, the shard
\* index lookup is not called and Indexes is unchanged; and a query over a
\* backend whose only claims are location commitments has an empty Indexes
C18_LocationIsTerminal ==
  /\ [][\A f \in running :
          (f.pc = "insert" /\ Protocol(f).code = LocationCommitmentID
           /\ f.job.indexForMh = Nil /\ f \notin running') =>
            /\ Protocol(f).claim \in DOMAIN qs'.qr.Claims
            /\ queue' = queue
            /\ hist'.spawned = hist.spawned
            /\ hist'.indexCalls = hist.indexCalls
            /\ qs'.qr.Indexes = qs.qr.Indexes
            /\ \A g \in running' \ running : g.job = f.job => g.pc \notin {"index", "setIndex"}]_vars
  /\ [](LET locationOnly ==
              \A mh \in DOMAIN sc.providers : \A i \in 1..Len(sc.providers[mh]) :
                \A p \in Range(sc.providers[mh][i].Metadata.protocols) :
                  HasClaimCid(p) => p.code = LocationCommitmentID
        IN  locationOnly =>
              /\ qs.qr.Indexes = <<>>
              /\ hist.indexCalls = {}
              /\ Returned => ret.qr.Indexes = <<>>)

\* a query whose only claim is a location commitment has returned it, without
\* an index and with no job but the initial one
C18_Witness ==
  /\ Succeeded
  /\ sc = ScDirect
  /\ DOMAIN ret.qr.Claims = {"C1"}
  /\ ret.qr.Indexes = <<>>
  /\ \E a \in hist.acted : a.code = LocationCommitmentID /\ a.job[3] = Nil
  /\ hist.spawned = {}
  /\ Cardinality(hist.created) = 1

\* C19 as stated: the shard index lookup is called with the contextID and the
\* provider of the location record being processed, and the index is stored
\* in Indexes under the contextID of that record
C19_LookupWithLocationRecord ==
  /\ \A c \in hist.indexCalls :
       /\ c.contextID = c.record.ContextID
       /\ c.provider.Provider = c.record.Provider
  /\ \A i \in hist.insertedIdx :
       /\ i.key \in DOMAIN qs.qr.Indexes
       /\ \E c \in hist.indexCalls : c.job = i.by /\ c.record.ContextID = i.key

\* C19, amended: the shard index lookup is called with the contextID of the
\* location record being processed and with the provider record the job
\* carries (indexProviderRecord, the record of the index claim that spawned
\* the job), and the returned index is stored in Indexes under the contextID
\* of the location record
C19_LookupWithIndexRecord ==
  /\ \A c \in hist.indexCalls :
       /\ c.contextID = c.record.ContextID
       /\ c.job[3] # Nil
       /\ \E s \in hist.spawned :
            /\ s.code = IndexClaimID
            /\ JobTuple(s.child) = c.job
            /\ s.child.indexProviderRecord = Ptr(c.provider)
            /\ s.record = c.provider
  /\ \A i \in hist.insertedIdx :
       /\ i.key \in DOMAIN qs.qr.Indexes
       /\ qs.qr.Indexes[i.key] = sc.indexes[i.key]
       /\ \E c \in hist.indexCalls : c.job = i.by /\ c.record.ContextID = i.key

\* an index was fetched and stored by a job whose location record is not the
\* record of the index claim, neither in provider nor in contextID
C19_Witness ==
  \E c \in hist.indexCalls : \E i \in hist.insertedIdx :
    /\ i.by = c.job /\ i.key = c.contextID
    /\ c.provider.Provider # c.record.Provider
    /\ c.provider.ContextID # c.record.ContextID
    /\ c.contextID \in DOMAIN qs.qr.Indexes

\* C20: a metadata block with an unrecognised protocol code is skipped
\* silently: no claim lookup, insertion or spawn is made for it and it causes
\* no error, and the handler goes on with the next recognised block of the
\* same record or of the remaining records of the Find response, returning
\* without error when there is none
C20_UnknownBlocksSkipped ==
  /\ [](/\ \A f \in running :
             f.pc \notin {"find", "returned"} => HasClaimCid(Protocol(f))
        /\ \A a \in hist.acted : a.code # UnknownID
        /\ \A s \in hist.spawned : s.code # UnknownID)
  /\ [][\A f \in running :
          LET results == IF f.pc = "find" THEN ProviderIndexFind(sc, QueryKey(f.job, q))
                         ELSE f.results
              from == IF f.pc = "find" THEN <<1, 0>> ELSE <<f.ri, f.bi>>
              before(a, b) == a[1] < b[1] \/ (a[1] = b[1] /\ a[2] < b[2])
              blocks == UNION {{<<ri, bi>> : bi \in 1..Len(results[ri].Metadata.protocols)} :
                                 ri \in 1..Len(results)}
              recognised == {b \in blocks : /\ before(from, b)
                                            /\ HasClaimCid(results[b[1]].Metadata.protocols[b[2]])}
              advances == \/ f.pc \in {"find", "spawn"}
                          \/ /\ f.pc = "insert"
                             /\ Protocol(f).code = LocationCommitmentID
                             /\ f.job.indexForMh = Nil
                          \/ /\ f.pc = "setIndex"
                             /\ \A x \in DOMAIN Deref(f.index) :
                                  Deref(f.job.indexForMh) \notin Deref(f.index)[x]
                          \/ f.pc = "shards" /\ Cardinality(f.todo) = 1
              next == {g \in running' : g.job = f.job}
          IN  (advances /\ f \notin running' /\ hist'.failures = hist.failures) =>
                /\ hist'.errs = hist.errs
                /\ f.pc = "find" => qs' = qs /\ queue' = queue
                /\ recognised = {} => next = {}
                /\ recognised # {} =>
                     \E g \in next :
                       /\ g.pc = "lookup" /\ g.results = results
                       /\ <<g.ri, g.bi>> \in recognised
                       /\ \A b \in recognised : ~before(b, <<g.ri, g.bi>>)]_vars

\* a query has returned, without error, the claims of the location commitments
\* that stand after, between and before unrecognised blocks in two records
C20_Witness ==
  /\ Succeeded
  /\ sc = ScUnknown
  /\ DOMAIN ret.qr.Claims = {"C1", "C2"}
  /\ hist.failures = {}
  /\ {a.claim : a \in hist.acted} = {"C1", "C2"}

\* C21: Entries(root) yields the multihashes of the entries chain in chain
\* order, all entries of the root chunk in their stored order, then those of
\* each Next chunk, ending when Next is nil; when reading or decoding a chunk
\* fails it yields exactly one (nil, error) pair as its last element and reads
\* no further chunk; once the consumer's yield returns false it yields
\* nothing more and reads no further chunk
C21_EntriesInChainOrder ==
  LET RECURSIVE Chain(_)
      \* what the chain from a link on holds: its multihashes, chunk by
      \* chunk, closed by the error of the first chunk that cannot be read
      Chain(link) ==
        IF link = Nil THEN <<>>
        ELSE IF Deref(link) \notin DOMAIN ds THEN <<[mh |-> Nil, err |-> ErrNotFound]>>
        ELSE IF ~ds[Deref(link)].valid THEN <<[mh |-> Nil, err |-> ErrEntryChunk]>>
        ELSE [i \in 1..Len(ds[Deref(link)].Entries) |->
                [mh |-> ds[Deref(link)].Entries[i], err |-> NoErr]]
             \o Chain(ds[Deref(link)].Next)
      RECURSIVE ChainLinks(_)
      ChainLinks(link) ==
        IF link = Nil THEN <<>>
        ELSE IF Deref(link) \notin DOMAIN ds \/ ~ds[Deref(link)].valid THEN <<Deref(link)>>
        ELSE <<Deref(link)>> \o ChainLinks(ds[Deref(link)].Next)
      IsPrefix(a, b) == Len(a) <= Len(b) /\ a = SubSeq(b, 1, Len(a))
      out == iter.yielded
      last == out[Len(out)]
  IN  /\ IsPrefix(out, Chain(root))
      /\ IsPrefix(iter.reads, ChainLinks(root))
      /\ (iter.pc = "done" /\ ~iter.refused) =>
            out = Chain(root) /\ iter.reads = ChainLinks(root)
      /\ \A k \in 1..Len(out) :
           out[k].err # NoErr =>
             /\ k = Len(out) /\ out[k].mh = Nil /\ iter.pc = "done"
             /\ dsGet(ds, iter.reads[Len(iter.reads)]).err # NoErr
                \/ ~ds[iter.reads[Len(iter.reads)]].valid
      /\ iter.refused =>
           /\ iter.pc = "done" /\ out # <<>> /\ last.err = NoErr
           /\ last.mh \in Range(ds[iter.reads[Len(iter.reads)]].Entries)
      /\ iter.pc = "done" => ~ENABLED EntriesNext

\* the entries of two chunks were yielded in chain order and then the error
\* of the third chunk, which the datastore does not hold
C21_Witness ==
  /\ iter.pc = "done" /\ ~iter.refused
  /\ iter.reads = <<1, 2, 3>>
  /\ Len(iter.yielded) = 4
  /\ [k \in 1..3 |-> iter.yielded[k].mh] = <<<<1, 1>>, <<1, 2>>, <<2, 1>>>>
  /\ iter.yielded[4] = [mh |-> Nil, err |-> ErrNotFound]

\* C22: every job created in a query, initial or spawned, that has indexForMh
\* set also has indexProviderRecord set and is of kind equals_or_location;
\* jobs of kind standard or location never have indexForMh set; so the
\* handler never dereferences an unset indexProviderRecord in the location
\* commitment branch
C22_IndexJobsCarryRecord ==
  /\ \A j \in hist.created \cup BagToSet(queue) \cup {f.job : f \in running} :
       /\ j.indexForMh # Nil =>
            j.indexProviderRecord # Nil /\ j.jobType = equalsOrLocationJobType
       /\ j.jobType \in {standardJobType, locationJobType} => j.indexForMh = Nil
  /\ \A f \in running :
       (f.pc \in {"insert", "index"} /\ Protocol(f).code = LocationCommitmentID
        /\ f.job.indexForMh # Nil) => f.job.indexProviderRecord # Nil

\* a job with indexForMh set was created by an index claim and the shard
\* index lookup was called with the record it carries
C22_Witness ==
  /\ \E j \in hist.created :
       /\ j.indexForMh # Nil /\ j.indexProviderRecord # Nil
       /\ \E c \in hist.indexCalls :
            c.job = JobTuple(j) /\ c.provider = Deref(j.indexProviderRecord)
  /\ \E j \in hist.created : j.jobType = locationJobType
  /\ \E j \in hist.created : j.jobType = standardJobType

\* C23: within one query the shared state only grows and the first writer
\* wins: a key once in visits, Claims or Indexes is never removed; a value
\* stored under a claim cid or a contextID is never replaced: the update of a
\* CmpSwap is applied at most once for a key, by the handler that found the
\* key absent, and what it stored stays; a CmpSwap whose predicate is false
\* applies no update, leaves the state unchanged and (for visits) runs no
\* body; and the key of a job stays in visits also when its handler fails
C23_StateGrowsFirstWriterWins ==
  /\ [][phase = "walk" =>
          /\ qs.visits \subseteq qs'.visits
          /\ \A c \in DOMAIN qs.qr.Claims :
               c \in DOMAIN qs'.qr.Claims /\ qs'.qr.Claims[c] = qs.qr.Claims[c]
          /\ \A c \in DOMAIN qs.qr.Indexes :
               c \in DOMAIN qs'.qr.Indexes /\ qs'.qr.Indexes[c] = qs.qr.Indexes[c]
          /\ \A j \in BagToSet(queue) :
               (CopiesIn(j, queue') < CopiesIn(j, queue) /\ key(j) \in qs.visits) =>
                 /\ qs' = qs
                 /\ running' = running
                 /\ hist'.bodies = hist.bodies
          /\ \A f \in running :
               /\ (f.pc = "insert" /\ f \notin running') =>
                    IF Protocol(f).claim \in DOMAIN qs.qr.Claims
                      THEN /\ qs' = qs
                           /\ hist'.claimSwaps = hist.claimSwaps
                      ELSE /\ qs'.qr.Claims[Protocol(f).claim] = Deref(f.claim)
                           /\ hist'.claimSwaps =
                                hist.claimSwaps (+) SetToBag({Protocol(f).claim})
               /\ (f.pc = "setIndex" /\ f \notin running') =>
                    IF Result(f).ContextID \in DOMAIN qs.qr.Indexes
                      THEN /\ qs' = qs
                           /\ hist'.indexSwaps = hist.indexSwaps
                      ELSE /\ qs'.qr.Indexes[Result(f).ContextID] = Deref(f.index)
                           /\ hist'.indexSwaps =
                                hist.indexSwaps (+) SetToBag({Result(f).ContextID})]_vars
  /\ [](/\ \A e \in hist.errs : KeyOfTuple(e.job) \in qs.visits
        /\ \A t \in BagToSet(hist.bodies) : KeyOfTuple(t) \in qs.visits
        /\ BagToSet(hist.claimSwaps) = DOMAIN qs.qr.Claims
        /\ BagToSet(hist.indexSwaps) = DOMAIN qs.qr.Indexes
        /\ \A c \in DOMAIN qs.qr.Claims : CopiesIn(c, hist.claimSwaps) = 1
        /\ \A c \in DOMAIN qs.qr.Indexes : CopiesIn(c, hist.indexSwaps) = 1)

\* in one walk two different jobs came to store the same claim: the update
\* of the first was applied and the CmpSwap of the second was refused; a job
\* was taken from the queue whose key was already in visits; and a handler
\* has failed while its key and the claims stored before are still there
C23_Witness ==
  /\ \E a, b \in hist.acted :
       /\ a.claim = b.claim /\ a.job # b.job /\ a.claim \in DOMAIN qs.qr.Claims
       /\ a.claim \in hist.claimRefused
       /\ CopiesIn(a.claim, hist.claimSwaps) = 1
  /\ \E e \in hist.errs : KeyOfTuple(e.job) \in qs.visits
  /\ Cardinality(DOMAIN qs.qr.Claims) >= 2

====
